---- MODULE Spec2Model ----
(***************************************************************************)
(* rex-cli: the layered configuration resolver (ConfigurationManager), the *)
(* incremental compilation cache (CacheManager) and the compile workflow   *)
(* that uses it (CompilationManager).                                      *)
(*                                                                         *)
(* JavaScript objects are held by reference, so the resolver's in-memory   *)
(* fragments live in a heap: heap[a] is the object at address a, a         *)
(* function from its own keys to values.  A value is a record [k, v]:      *)
(* k is the JavaScript kind, v the address (objects) or an identity        *)
(* (scalars, strings, arrays; identity 0 is the falsy scalar or string).   *)
(* A key path is the sequence of its segments, i.e. keyPath.split('.').    *)
(* What is stored in a JSON file is a tree: a function from key paths to   *)
(* values, with ObjNode at the paths that hold a mapping.                  *)
(***************************************************************************)
EXTENDS Integers, Sequences, FiniteSets, TLC

VARIABLES
    fs,     \* the files the specification works on.  Resolver: the two
            \* config.json files [global, project], each [st, tree].  Cache:
            \* [files, cache].  Compilation: [prompts, compiled, cache].
    mgr,    \* the ConfigurationManager instance and the objects it reaches:
            \*   [heap, globalConfig, projectConfig, mergedConfig]
    last,   \* the last operation: its name, arguments and outcome
    nops    \* number of operations performed so far

cfgVars == <<fs, mgr, last, nops>>

-----------------------------------------------------------------------------
(* JavaScript values *)

Undefined == [k |-> "undefined", v |-> 0]
Null      == [k |-> "null", v |-> 0]
Scalar(n) == [k |-> "scalar", v |-> n]
Array(n)  == [k |-> "array", v |-> n]
String(n) == [k |-> "string", v |-> n]
Ref(a)    == [k |-> "object", v |-> a]
ObjNode   == [k |-> "object", v |-> 0]
Function  == [k |-> "function", v |-> 0]
IsoTime(t) == [k |-> "iso", v |-> t]

\* the order in which the keys of an object are visited
KeyOrder == <<"utilities", "deploy", "cursor", "copilot", "enabled", "tags", "hasOwnProperty",
              "promptNames", "utility", "output", "category", "excludeTags", "dryRun", "force",
              "defaultUtility", "defaultOutput", "defaultTags", "defaultCategory",
              "defaultExcludeTags", "prompts">>
Keys == {KeyOrder[i] : i \in 1..Len(KeyOrder)}

\* !x is false
Truthy(x) ==
    x.k \in {"object", "array", "function", "iso"} \/ (x.k \in {"scalar", "string"} /\ x.v # 0)

\* typeof x === 'object'
TypeofObject(x) == x.k \in {"object", "array", "null"}

\* _isObject without the Array.isArray test
isObject_ArraysToo(x) == x # Null /\ TypeofObject(x)

\* ConfigurationManager._isObject
isObject(x) == x # Null /\ TypeofObject(x) /\ x.k # "array"

EmptyObj == [key \in {} |-> Undefined]

\* own keys of the object a value refers to (none for a value that is no object)
OwnKeys(h, x) == IF x.k = "object" THEN DOMAIN h[x.v] ELSE {}

\* x has the own key
HasKey(h, x, key) == key \in OwnKeys(h, x)

\* x[key] for an own key (undefined when absent)
Field(h, x, key) == IF HasKey(h, x, key) THEN h[x.v][key] ELSE Undefined

\* the key names that objects and arrays inherit from Object.prototype
Inherited == {"hasOwnProperty"}

\* key in x  (x an object or an array): own and inherited names
In(h, x, key) == HasKey(h, x, key) \/ (x.k \in {"object", "array"} /\ key \in Inherited)

\* x[key] where key in x: an inherited name gives the method of the prototype
Prop(h, x, key) ==
    IF HasKey(h, x, key) THEN h[x.v][key]
    ELSE IF In(h, x, key) THEN Function ELSE Undefined

\* x[key] = val, in place
SetField(h, x, key, val) ==
    [h EXCEPT ![x.v] = [kk \in DOMAIN h[x.v] \cup {key} |-> IF kk = key THEN val ELSE h[x.v][kk]]]

\* delete x[key], in place
DeleteField(h, x, key) ==
    [h EXCEPT ![x.v] = [kk \in DOMAIN h[x.v] \ {key} |-> h[x.v][kk]]]

\* a new object with the given fields: [h |-> the heap with it, r |-> its reference]
NewObject(h, fields) == [h |-> Append(h, fields), r |-> Ref(Len(h) + 1)]

\* the keys of a set in KeyOrder
KeySeq(S) == SelectSeq(KeyOrder, LAMBDA key : key \in S)

-----------------------------------------------------------------------------
(* Trees: JSON text and deep values *)

EmptyTree == (<<>> :> ObjNode)
Leaf(x) == (<<>> :> x)

\* the tree below a value: every path that leads to a value, objects as ObjNode
RECURSIVE TreePairs(_, _, _, _)
TreePairs(h, x, p, dropUndefined) ==
    IF x.k = "object"
    THEN {<<p, ObjNode>>} \cup
         UNION {TreePairs(h, h[x.v][key], Append(p, key), dropUndefined) :
                    key \in {kk \in DOMAIN h[x.v] :
                                ~(dropUndefined /\ h[x.v][kk] = Undefined)}}
    ELSE {<<p, x>>}

TreeOfPairs(ps) == [p \in {q[1] : q \in ps} |-> (CHOOSE q \in ps : q[1] = p)[2]]

\* the deep value of x (what toEqual compares)
DeepValue(h, x) == TreeOfPairs(TreePairs(h, x, <<>>, FALSE))

\* JSON.stringify then JSON.parse: keys holding undefined are not written
Stringify(h, x) == TreeOfPairs(TreePairs(h, x, <<>>, TRUE))

\* the children keys of path p in tree T
ChildKeys(T, p) == {key \in Keys : Append(p, key) \in DOMAIN T}

\* the subtree of T at path p, as a tree of its own
SubTree(T, p) ==
    [q \in {SubSeq(r, Len(p) + 1, Len(r)) :
                r \in {s \in DOMAIN T : Len(s) >= Len(p) /\ SubSeq(s, 1, Len(p)) = p}}
        |-> T[p \o q]]

\* JSON.parse: builds the objects of tree T below path p in the heap
RECURSIVE ParseAt(_, _, _)
RECURSIVE ParseKeys(_, _, _, _, _)
ParseAt(h, T, p) ==
    IF T[p].k = "object"
    THEN LET o == NewObject(h, EmptyObj)
         IN  ParseKeys(o.h, T, p, o.r, KeySeq(ChildKeys(T, p)))
    ELSE [h |-> h, r |-> T[p]]
ParseKeys(h, T, p, obj, keys) ==
    IF keys = <<>> THEN [h |-> h, r |-> obj]
    ELSE LET c == ParseAt(h, T, Append(p, Head(keys)))
         IN  ParseKeys(SetField(c.h, obj, Head(keys), c.r), T, p, obj, Tail(keys))

Parse(h, T) == ParseAt(h, T, <<>>)

-----------------------------------------------------------------------------
(* ConfigurationManager: the merge *)

RECURSIVE deepMerge(_, _, _)
RECURSIVE deepMergeKeys(_, _, _, _, _)
RECURSIVE deepMergeNested(_, _, _, _, _)
\* _deepMerge(target, source): [h |-> heap after, r |-> result, threw].  An own
\* key "hasOwnProperty" of source (a JSON value, no function) shadows
\* Object.prototype.hasOwnProperty, so that source.hasOwnProperty(key) throws a
\* TypeError in the first round of the loop.
deepMerge(h, target, source) ==
    LET res == NewObject(h, IF target.k = "object" THEN h[target.v] ELSE EmptyObj)
    IN  IF HasKey(h, source, "hasOwnProperty")
        THEN [h |-> res.h, r |-> Undefined, threw |-> TRUE]
        ELSE deepMergeKeys(res.h, res.r, target, source, KeySeq(OwnKeys(h, source)))
\* the loop "for (const key in source)" of _deepMerge
deepMergeKeys(h, result, target, source, keys) ==
    IF keys = <<>> THEN [h |-> h, r |-> result, threw |-> FALSE]
    ELSE LET key == Head(keys)
             sv == Field(h, source, key)
             tv == Field(h, target, key)
         IN  IF isObject(sv) /\ isObject(tv)
             THEN deepMergeNested(deepMerge(h, tv, sv), result, target, source, keys)
             ELSE deepMergeKeys(SetField(h, result, key, sv), result, target, source, Tail(keys))
\* "result[key] = this._deepMerge(target[key], source[key])" with the value m of
\* the call, and the rest of the loop
deepMergeNested(m, result, target, source, keys) ==
    IF m.threw THEN m
    ELSE deepMergeKeys(SetField(m.h, result, Head(keys), m.r), result, target, source, Tail(keys))

\* _sanitizeCliOptions(cliOptions)
sanitizeCliOptions(h, cliOptions) ==
    NewObject(h, [key \in {kk \in OwnKeys(h, cliOptions) : Field(h, cliOptions, kk) # Undefined}
                    |-> Field(h, cliOptions, key)])

\* the outer _deepMerge of _mergeConfigurations: target merged with the sanitized
\* options cli
mergeSanitized(target, cli) == deepMerge(cli.h, target, cli.r)

\* _mergeConfigurations from the value gp of the inner _deepMerge on
mergeOverride(gp, cliOptions) ==
    IF gp.threw THEN gp ELSE mergeSanitized(gp.r, sanitizeCliOptions(gp.h, cliOptions))

\* _mergeConfigurations with the global fragment merged over the project fragment
mergeConfigurations_GlobalOverProject(h, globalConfig, projectConfig, cliOptions) ==
    mergeOverride(deepMerge(h, projectConfig, globalConfig), cliOptions)

\* _mergeConfigurations(globalConfig, projectConfig, cliOptions): [h, r, threw]
mergeConfigurations(h, globalConfig, projectConfig, cliOptions) ==
    mergeOverride(deepMerge(h, globalConfig, projectConfig), cliOptions)

-----------------------------------------------------------------------------
(* ConfigurationManager: nested keys *)

\* _getNestedValue(obj, keyPath, defaultValue)
RECURSIVE getNestedValue(_, _, _, _)
getNestedValue(h, current, keys, defaultValue) ==
    IF keys = <<>> THEN current
    ELSE IF Truthy(current) /\ TypeofObject(current) /\ In(h, current, Head(keys))
         THEN getNestedValue(h, Prop(h, current, Head(keys)), Tail(keys), defaultValue)
         ELSE defaultValue

\* _setNestedValue(obj, keyPath, value): the heap after
RECURSIVE setNestedValue(_, _, _, _)
setNestedValue(h, current, keys, value) ==
    IF Len(keys) = 1 THEN SetField(h, current, keys[1], value)
    ELSE LET key == Head(keys)
         IN  IF ~In(h, current, key) \/ ~isObject(Prop(h, current, key))
             THEN LET o == NewObject(h, EmptyObj)
                  IN  setNestedValue(SetField(o.h, current, key, o.r), o.r, Tail(keys), value)
             ELSE setNestedValue(h, Prop(h, current, key), Tail(keys), value)

\* the loop of _deleteNestedKey and of _cleanupEmptyObjects that walks down from
\* the root: [ok |-> FALSE] when it returns early, else the object reached
RECURSIVE navigate(_, _, _)
navigate(h, current, keys) ==
    IF keys = <<>> THEN [ok |-> TRUE, cur |-> current]
    ELSE IF ~Truthy(current) \/ ~isObject(current) \/ ~In(h, current, Head(keys))
         THEN [ok |-> FALSE, cur |-> current]
         ELSE navigate(h, Prop(h, current, Head(keys)), Tail(keys))

\* Object.keys(x).length === 0  (scalars are booleans and numbers, arrays are not empty)
NoKeys(h, x) == IF x.k = "object" THEN DOMAIN h[x.v] = {} ELSE x.k = "scalar"

\* _cleanupEmptyObjects(obj, keyPath), from step i of its loop on: the heap after
RECURSIVE cleanupEmptyObjects(_, _, _, _)
cleanupEmptyObjects(h, obj, keys, i) ==
    IF i <= 0 THEN h
    ELSE LET parentPath == SubSeq(keys, 1, i)
             childKey   == keys[i]
             nav        == navigate(h, obj, parentPath)
         IN  IF ~nav.ok THEN h
             ELSE LET childObj == Field(h, nav.cur, childKey)
                  IN  IF isObject(childObj) /\ NoKeys(h, childObj)
                      THEN cleanupEmptyObjects(DeleteField(h, nav.cur, childKey), obj, keys, i - 1)
                      ELSE h

\* _deleteNestedKey(obj, keyPath): the heap after
deleteNestedKey(h, obj, keys) ==
    LET lastKey == keys[Len(keys)]
        nav     == navigate(h, obj, SubSeq(keys, 1, Len(keys) - 1))
    IN  IF ~nav.ok THEN h
        ELSE IF Truthy(nav.cur) /\ isObject(nav.cur) /\ In(h, nav.cur, lastKey)
             THEN cleanupEmptyObjects(DeleteField(h, nav.cur, lastKey), obj, keys, Len(keys) - 1)
             ELSE h

-----------------------------------------------------------------------------
(* ConfigurationManager: the instance *)

\* constructor()
NewManager == [heap |-> <<>>, globalConfig |-> Null, projectConfig |-> Null, mergedConfig |-> Null]

\* the addresses reachable from the values of todo, in the order of a first visit
RECURSIVE Reach(_, _, _)
Reach(h, todo, order) ==
    IF todo = <<>> THEN order
    ELSE LET x == Head(todo)
         IN  IF x.k # "object" \/ (\E i \in 1..Len(order) : order[i] = x.v)
             THEN Reach(h, Tail(todo), order)
             ELSE Reach(h, [i \in 1..Len(KeySeq(DOMAIN h[x.v])) |-> h[x.v][KeySeq(DOMAIN h[x.v])[i]]]
                              \o Tail(todo),
                        Append(order, x.v))

\* the instance with the unreachable objects dropped and the addresses renamed in
\* visiting order (addresses are not observable)
Canon(c) ==
    LET order  == Reach(c.heap, <<c.globalConfig, c.projectConfig, c.mergedConfig>>, <<>>)
        ren(x) == IF x.k = "object" THEN Ref(CHOOSE i \in 1..Len(order) : order[i] = x.v) ELSE x
    IN  [heap          |-> [i \in 1..Len(order) |->
                               [key \in DOMAIN c.heap[order[i]] |-> ren(c.heap[order[i]][key])]],
         globalConfig  |-> ren(c.globalConfig),
         projectConfig |-> ren(c.projectConfig),
         mergedConfig  |-> ren(c.mergedConfig)]

\* a config.json file
Missing   == [st |-> "missing", tree |-> EmptyTree]
Malformed == [st |-> "malformed", tree |-> EmptyTree]
Locked    == [st |-> "unreadable", tree |-> EmptyTree]
File(T)   == [st |-> "ok", tree |-> T]

\* _loadGlobalConfig() / _loadProjectConfig(): a missing file and a file that
\* cannot be read or parsed both give {}
loadConfigFile(h, file) ==
    IF file.st = "ok" THEN Parse(h, file.tree) ELSE NewObject(h, EmptyObj)

\* loadConfiguration from the assignment of _mergedConfig on: g and p are the two
\* fragments, m the value of _mergeConfigurations
loadMerged(c, g, p, m) ==
    [c   |-> [heap |-> m.h, globalConfig |-> g, projectConfig |-> p,
              mergedConfig |-> IF m.threw THEN c.mergedConfig ELSE m.r],
     out |-> IF m.threw THEN "FileSystemError" ELSE "ok"]

\* loadConfiguration from the merge on, over the configuration base
loadFragments(c, g, p, base, cliOptions) ==
    loadMerged(c, g.r, p.r, mergeConfigurations(p.h, base, p.r, cliOptions))

\* loadConfiguration from _loadProjectConfig on
loadProject(c, files, g, cliOptions) ==
    loadFragments(c, g, loadConfigFile(g.h, files.project), g.r, cliOptions)

\* the same, with the global fragment first merged over the merged configuration
\* found in memory
loadProjectOver(c, files, g, b, cliOptions) ==
    loadFragments(c, g, loadConfigFile(b.h, files.project), b.r, cliOptions)

\* loadConfiguration that merges the files and the override over the merged
\* configuration it finds in memory
loadConfiguration_OverMemory(c, files, cliOptions) ==
    LET g == loadConfigFile(c.heap, files.global)
    IN  loadProjectOver(c, files, g, deepMerge(g.h, c.mergedConfig, g.r), cliOptions)

\* loadConfiguration(cliOptions), cliOptions an object of the caller: [c, out], the
\* instance after the call and how the call ends; when the merge throws, the two
\* fragments are already assigned, _mergedConfig is not, and the catch wraps the
\* error in a FileSystemError
loadConfiguration(c, files, cliOptions) ==
    loadProject(c, files, loadConfigFile(c.heap, files.global), cliOptions)

\* isLoaded()
isLoaded(c) == c.mergedConfig # Null

\* get(key, defaultValue): [out, val]
get(c, key, defaultValue) ==
    IF ~Truthy(c.mergedConfig)
    THEN [out |-> "NotLoaded", val |-> Undefined]
    ELSE [out |-> "ok", val |-> getNestedValue(c.heap, c.mergedConfig, key, defaultValue)]

\* getAll(): [out, h, val], val a new object
getAll(c) ==
    IF ~Truthy(c.mergedConfig)
    THEN [out |-> "NotLoaded", h |-> c.heap, val |-> Undefined]
    ELSE LET o == NewObject(c.heap, c.heap[c.mergedConfig.v])
         IN  [out |-> "ok", h |-> o.h, val |-> o.r]

\* validateRequiredConfig that throws at the first missing key
validateRequiredConfig_FirstOnly(c, requiredKeys) ==
    IF ~Truthy(c.mergedConfig)
    THEN [out |-> "NotLoaded", missing |-> <<>>]
    ELSE LET missing == SelectSeq(requiredKeys, LAMBDA key : get(c, key, Undefined).val = Undefined)
         IN  [out |-> IF Len(missing) > 0 THEN "ValidationError" ELSE "ok",
              missing |-> IF missing = <<>> THEN <<>> ELSE <<Head(missing)>>]

\* validateRequiredConfig(requiredKeys): [out, missing]; the message of the
\* ValidationError is "Missing required configuration: " and missing.join(', ')
validateRequiredConfig(c, requiredKeys) ==
    IF ~Truthy(c.mergedConfig)
    THEN [out |-> "NotLoaded", missing |-> <<>>]
    ELSE LET missing == SelectSeq(requiredKeys, LAMBDA key : get(c, key, Undefined).val = Undefined)
         IN  [out |-> IF Len(missing) > 0 THEN "ValidationError" ELSE "ok", missing |-> missing]

\* set(key, value)
set(c, key, value) ==
    LET o == IF ~Truthy(c.mergedConfig) THEN NewObject(c.heap, EmptyObj)
             ELSE [h |-> c.heap, r |-> c.mergedConfig]
    IN  [c EXCEPT !.heap = setNestedValue(o.h, o.r, key, value), !.mergedConfig = o.r]

\* reset() that forgets the merged configuration and keeps the two fragments
reset_MergedOnly(c) == [c EXCEPT !.mergedConfig = Null]

\* reset() that clears the fields to undefined instead of null
reset_ToUndefined(c) ==
    [c EXCEPT !.globalConfig = Undefined, !.projectConfig = Undefined, !.mergedConfig = Undefined]

\* reset()
reset(c) == [c EXCEPT !.globalConfig = Null, !.projectConfig = Null, !.mergedConfig = Null]

\* getConfigSources(), as deep values
getConfigSources(c) ==
    [global  |-> DeepValue(c.heap, c.globalConfig),
     project |-> DeepValue(c.heap, c.projectConfig),
     merged  |-> DeepValue(c.heap, c.mergedConfig)]

\* the file that writeJson(path, config) leaves
Written(c, config) == File(Stringify(c.heap, config))

\* an empty object of the caller added to the heap of c
WithEmpty(c) == [c EXCEPT !.heap = Append(c.heap, EmptyObj)]

\* saveProjectConfig after the write: m is the value of _mergeConfigurations
projectSaved(c, files, config, m) ==
    IF m.threw
    THEN [c |-> [c EXCEPT !.heap = m.h, !.projectConfig = config],
          files |-> files, out |-> "FileSystemError"]
    ELSE [c |-> [c EXCEPT !.heap = m.h, !.projectConfig = config, !.mergedConfig = m.r],
          files |-> files, out |-> "ok"]

\* saveProjectConfig that keeps the merged configuration it found
saveProjectConfig_NoRemerge(c, files, config, writeFails) ==
    IF writeFails THEN [c |-> c, files |-> files, out |-> "FileSystemError"]
    ELSE IF Truthy(c.mergedConfig)
    THEN [c |-> [c EXCEPT !.projectConfig = config],
          files |-> [files EXCEPT !.project = Written(c, config)], out |-> "ok"]
    ELSE [c |-> c, files |-> [files EXCEPT !.project = Written(c, config)], out |-> "ok"]

\* saveProjectConfig(config): [c, files, out]; writeFails: ensureDir or writeJson
\* throws; the merge has {} as its options
saveProjectConfig(c, files, config, writeFails) ==
    IF writeFails THEN [c |-> c, files |-> files, out |-> "FileSystemError"]
    ELSE IF Truthy(c.mergedConfig)
    THEN projectSaved(c, [files EXCEPT !.project = Written(c, config)], config,
                      mergeConfigurations(WithEmpty(c).heap, c.globalConfig, config,
                                          Ref(Len(c.heap) + 1)))
    ELSE [c |-> c, files |-> [files EXCEPT !.project = Written(c, config)], out |-> "ok"]

\* saveGlobalConfig after the write: m is the value of _mergeConfigurations
globalSaved(c, files, config, m) ==
    IF m.threw
    THEN [c |-> [c EXCEPT !.heap = m.h, !.globalConfig = config],
          files |-> files, out |-> "FileSystemError"]
    ELSE [c |-> [c EXCEPT !.heap = m.h, !.globalConfig = config, !.mergedConfig = m.r],
          files |-> files, out |-> "ok"]

\* saveGlobalConfig that updates the instance before it writes the file
saveGlobalConfig_AssignFirst(c, files, config, writeFails) ==
    IF ~Truthy(c.mergedConfig)
    THEN IF writeFails THEN [c |-> c, files |-> files, out |-> "FileSystemError"]
         ELSE [c |-> c, files |-> [files EXCEPT !.global = Written(c, config)], out |-> "ok"]
    ELSE globalSaved(c, IF writeFails THEN files
                        ELSE [files EXCEPT !.global = Written(c, config)],
                     config,
                     IF writeFails
                     THEN [h |-> c.heap, r |-> c.mergedConfig, threw |-> TRUE]
                     ELSE mergeConfigurations(WithEmpty(c).heap, config, c.projectConfig,
                                              Ref(Len(c.heap) + 1)))

\* saveGlobalConfig(config): [c, files, out]
saveGlobalConfig(c, files, config, writeFails) ==
    IF writeFails THEN [c |-> c, files |-> files, out |-> "FileSystemError"]
    ELSE IF Truthy(c.mergedConfig)
    THEN globalSaved(c, [files EXCEPT !.global = Written(c, config)], config,
                     mergeConfigurations(WithEmpty(c).heap, config, c.projectConfig,
                                         Ref(Len(c.heap) + 1)))
    ELSE [c |-> c, files |-> [files EXCEPT !.global = Written(c, config)], out |-> "ok"]

\* x[key] = val in strict mode: a TypeError when x is a primitive; what is set on
\* an array under a name is no element of it, is not written to JSON and is not modelled
Assign(h, x, key, val) ==
    IF x.k = "object" THEN [h |-> SetField(h, x, key, val), threw |-> FALSE]
    ELSE [h |-> h, threw |-> x.k # "array"]

\* delete x[key]: nothing to delete on a primitive
Delete(h, x, key) == IF HasKey(h, x, key) THEN DeleteField(h, x, key) ELSE h

\* the part of setUtilityConfig that edits currentConfig: [h, threw]
editUtilities(h, currentConfig, utilityName, key, value) ==
    LET \* if (!currentConfig.utilities) currentConfig.utilities = {}
        s1 == IF ~Truthy(Field(h, currentConfig, "utilities"))
              THEN LET o == NewObject(h, EmptyObj)
                   IN  SetField(o.h, currentConfig, "utilities", o.r)
              ELSE h
        utilities == Field(s1, currentConfig, "utilities")
        \* if (!currentConfig.utilities[utilityName]) currentConfig.utilities[utilityName] = {}
        s2 == IF ~Truthy(Field(s1, utilities, utilityName))
              THEN LET o == NewObject(s1, EmptyObj)
                   IN  Assign(o.h, utilities, utilityName, o.r)
              ELSE [h |-> s1, threw |-> FALSE]
        utility == Field(s2.h, utilities, utilityName)
    IN  IF s2.threw THEN s2
        ELSE IF value = Undefined
        THEN LET d1 == Delete(s2.h, utility, key)
                 d2 == IF utilities.k = "object" /\ NoKeys(d1, Field(d1, utilities, utilityName))
                       THEN Delete(d1, utilities, utilityName) ELSE d1
                 d3 == IF NoKeys(d2, utilities)
                       THEN Delete(d2, currentConfig, "utilities") ELSE d2
             IN  [h |-> d3, threw |-> FALSE]
        ELSE IF utilities.k = "object" THEN Assign(s2.h, utility, key, value)
             ELSE [h |-> s2.h, threw |-> FALSE]

\* setUtilityConfig from the save on: ed is the outcome of the edit of the copy cur
saveEdited(c1, files, cur, ed, writeFails) ==
    IF ed.threw THEN [c |-> [c1 EXCEPT !.heap = ed.h], files |-> files, out |-> "FileSystemError"]
    ELSE saveProjectConfig([c1 EXCEPT !.heap = ed.h], files, cur, writeFails)

\* setUtilityConfig from the edit on: cur is the copy { ...this._projectConfig }
editCopy(c1, files, cur, utilityName, key, value, writeFails) ==
    saveEdited(c1, files, cur.r, editUtilities(cur.h, cur.r, utilityName, key, value), writeFails)

\* setUtilityConfig after "if (!this._mergedConfig) await this.loadConfiguration({})",
\* ld the outcome of that load
setLoaded(ld, files, utilityName, key, value, writeFails) ==
    IF ld.out # "ok" THEN [c |-> ld.c, files |-> files, out |-> "FileSystemError"]
    ELSE editCopy(ld.c, files,
                  NewObject(ld.c.heap, IF ld.c.projectConfig.k = "object"
                                       THEN ld.c.heap[ld.c.projectConfig.v] ELSE EmptyObj),
                  utilityName, key, value, writeFails)

\* setUtilityConfig(utilityName, key, value): [c, files, out]
setUtilityConfig(c, files, utilityName, key, value, writeFails) ==
    setLoaded(IF ~Truthy(c.mergedConfig)
              THEN loadConfiguration(WithEmpty(c), files, Ref(Len(c.heap) + 1))
              ELSE [c |-> c, out |-> "ok"],
              files, utilityName, key, value, writeFails)

-----------------------------------------------------------------------------
(* Fragments the operations are tried on *)

\* the mapping whose keys are DOMAIN f, with the tree f[key] below key
MkObj(f) ==
    [p \in {<<>>} \cup UNION {{<<key>> \o q : q \in DOMAIN f[key]} : key \in DOMAIN f}
        |-> IF p = <<>> THEN ObjNode ELSE f[Head(p)][Tail(p)]]

\* every mapping with keys among K and the trees of Sub below them
ObjectsOver(K, Sub) == {MkObj(f) : f \in UNION {[S -> Sub] : S \in SUBSET K}}

\* what a fragment of source s (1 global, 2 project, 3 override) holds at "deploy"
DeployValues(s) ==
    {Leaf(Scalar(s)), Leaf(Array(s)), Leaf(Null)}
    \cup ObjectsOver({"tags"}, {Leaf(Scalar(s)), Leaf(Array(s)), MkObj("enabled" :> Leaf(Scalar(s)))})

\* the fragments of source s
Fragments(s) ==
    {MkObj(f) : f \in UNION {[S -> DeployValues(s)] : S \in SUBSET {"deploy"}}
                      \cup {g @@ ("enabled" :> Leaf(Scalar(s))) :
                              g \in UNION {[S -> DeployValues(s)] : S \in SUBSET {"deploy"}}}}

\* override fragments may hold undefined, at the top and below it
OverrideFragments ==
    Fragments(3) \cup
    {MkObj("deploy" :> Leaf(Undefined)),
     MkObj("deploy" :> MkObj("tags" :> Leaf(Undefined))),
     MkObj("deploy" :> Leaf(Scalar(3)) @@ "enabled" :> Leaf(Undefined))}

\* the key paths asked for
KeyPaths == {<<"deploy">>, <<"deploy", "tags">>, <<"deploy", "tags", "enabled">>,
             <<"enabled">>, <<"tags">>}

NoOp == [op |-> "new", args |-> <<>>, out |-> "ok", val |-> Leaf(Undefined)]

-----------------------------------------------------------------------------
(* Specification SpecDeepMerge: _deepMerge on every pair of fragments *)

InitDeepMerge ==
    /\ fs = [global |-> Missing, project |-> Missing]
    /\ mgr = NewManager
    /\ last = NoOp
    /\ nops = 0

\* manager._deepMerge(A, B) on two objects of the caller
DeepMergeCall ==
    \E A \in Fragments(1), B \in OverrideFragments :
        LET a == Parse(<<>>, A)
            b == Parse(a.h, B)
            m == deepMerge(b.h, a.r, b.r)
        IN  /\ nops = 0
            /\ nops' = 1
            /\ last' = [op |-> "deepMerge", args |-> <<A, B>>, out |-> "ok",
                        val |-> DeepValue(m.h, m.r)]
            /\ UNCHANGED <<fs, mgr>>

NextDeepMerge == DeepMergeCall

SpecDeepMerge == InitDeepMerge /\ [][NextDeepMerge]_cfgVars

\* the top-level keys of a tree
TopKeys(T) == ChildKeys(T, <<>>)

\* tree T holds a mapping at path p
IsMapping(T, p) == p \in DOMAIN T /\ T[p].k = "object"

\* the merge the configuration documents state, on mappings as values: keys only in
\* A are kept, two nested mappings merge, anything else of B replaces A's value
RECURSIVE MergedMappings(_, _)
MergedMappings(A, B) ==
    MkObj([key \in TopKeys(A) \cup TopKeys(B) |->
              IF key \notin TopKeys(B) THEN SubTree(A, <<key>>)
              ELSE IF IsMapping(A, <<key>>) /\ IsMapping(B, <<key>>)
                   THEN MergedMappings(SubTree(A, <<key>>), SubTree(B, <<key>>))
                   ELSE SubTree(B, <<key>>)])

\* C3: _deepMerge(A, B) keeps the keys only in A, merges two nested mappings
\* recursively and lets every other value of B (a list, a scalar, null, also a
\* mapping over a non-mapping) replace A's value outright.
C3_DeepMerge ==
    last.op = "deepMerge" =>
        /\ last.val = MergedMappings(last.args[1], last.args[2])
        /\ \A key \in TopKeys(last.args[2]) :
              ~(IsMapping(last.args[1], <<key>>) /\ IsMapping(last.args[2], <<key>>))
                  => SubTree(last.val, <<key>>) = SubTree(last.args[2], <<key>>)

\* a list of the higher-priority fragment has replaced a list, and a mapping a list
C3_Witness ==
    /\ last.op = "deepMerge"
    /\ <<"deploy", "tags">> \in DOMAIN last.args[1]
    /\ last.args[1][<<"deploy", "tags">>].k = "array"
    /\ <<"deploy", "tags">> \in DOMAIN last.args[2]
    /\ last.args[2][<<"deploy", "tags">>] = Array(3)
    /\ <<"enabled">> \in DOMAIN last.args[1]
    /\ <<"enabled">> \notin DOMAIN last.args[2]
    /\ last.val[<<"deploy", "tags">>] = Array(3)
    /\ last.val[<<"enabled">>] = Scalar(1)

-----------------------------------------------------------------------------
(* Specification SpecLoad: loadConfiguration on every combination of fragments *)

ConfigFiles(s) == {Missing, Malformed} \cup {File(T) : T \in Fragments(s)}

InitLoad ==
    /\ fs \in [global : ConfigFiles(1), project : ConfigFiles(2)]
    /\ mgr = NewManager
    /\ last = NoOp
    /\ nops = 0

\* manager.loadConfiguration(cliOptions)
Load(pool) ==
    \E cli \in pool :
        LET o == Parse(mgr.heap, cli)
            r == loadConfiguration([mgr EXCEPT !.heap = o.h], fs, o.r)
        IN  /\ mgr' = Canon(r.c)
            /\ last' = [op |-> "load", args |-> <<cli>>, out |-> r.out,
                        val |-> DeepValue(r.c.heap, r.c.mergedConfig)]
            /\ nops' = nops + 1
            /\ UNCHANGED fs

LoadFresh == nops = 0 /\ Load(OverrideFragments)

NextLoad == LoadFresh

SpecLoad == InitLoad /\ [][NextLoad]_cfgVars

\* the fragment a file contributes
FragmentOf(file) == IF file.st = "ok" THEN file.tree ELSE EmptyTree

\* an override fragment without its top-level keys that hold undefined
Sanitized(T) == [p \in {q \in DOMAIN T : q = <<>> \/ T[<<q[1]>>] # Undefined} |-> T[p]]

\* the fragments of the last load in ascending priority: global, project, override
LoadedFragments == <<FragmentOf(fs.global), FragmentOf(fs.project), Sanitized(last.args[1])>>

\* the fragments (1..3) that hold key path p
Holders(F, p) == {i \in 1..3 : p \in DOMAIN F[i]}

\* the highest-priority fragment that holds p
Winner(F, p) == CHOOSE i \in Holders(F, p) : \A j \in Holders(F, p) : j <= i

\* a fragment of higher priority than i holds a non-mapping at a proper prefix of p
Shadowed(F, i, p) ==
    \E j \in 1..3, n \in 1..(Len(p) - 1) :
        /\ j > i
        /\ SubSeq(p, 1, n) \in DOMAIN F[j]
        /\ F[j][SubSeq(p, 1, n)].k # "object"

\* what get(p) returns, as a deep value
GetValue(p) == DeepValue(mgr.heap, get(mgr, p, Undefined).val)

\* C1 as claimed: for every key path held by more than one fragment, get returns
\* the value of the highest-priority fragment that holds it.
C1_AsClaimed ==
    last.op = "load" =>
        \A p \in KeyPaths :
            Cardinality(Holders(LoadedFragments, p)) > 1
                => GetValue(p) = SubTree(LoadedFragments[Winner(LoadedFragments, p)], p)

\* C1 amended: for every key path held by more than one fragment, get returns the
\* value of the highest-priority fragment that holds it when that value is not a
\* mapping and no fragment of higher priority holds a non-mapping at a proper
\* prefix of the path.
C1_Precedence ==
    last.op = "load" =>
        \A p \in KeyPaths :
            LET F == LoadedFragments
            IN  (/\ Cardinality(Holders(F, p)) > 1
                 /\ F[Winner(F, p)][p].k # "object"
                 /\ ~Shadowed(F, Winner(F, p), p))
                    => GetValue(p) = Leaf(F[Winner(F, p)][p])

\* a path held by all three fragments resolves to the override's value, and a
\* path held by the global and the project fragment to the project's
C1_Witness ==
    /\ last.op = "load"
    /\ Holders(LoadedFragments, <<"deploy", "tags">>) = {1, 2, 3}
    /\ GetValue(<<"deploy", "tags">>) = Leaf(Array(3))
    /\ Holders(LoadedFragments, <<"enabled">>) = {1, 2}
    /\ GetValue(<<"enabled">>) = Leaf(Scalar(2))

\* what get(p) would return on the merge of the global and the project fragment
\* of the last load alone
GlobalProjectValue(p) ==
    LET M == MergedMappings(FragmentOf(fs.global), FragmentOf(fs.project))
    IN  IF p \in DOMAIN M THEN SubTree(M, p) ELSE Leaf(Undefined)

\* the key paths at which the override fragment of the last load holds undefined
UndefinedIn(T) == {p \in KeyPaths : p \in DOMAIN T /\ T[p] = Undefined}

\* C13: for every key path at which the override fragment holds undefined, at the
\* top level or inside a nested mapping, get after load returns what the merge of
\* the global and the project fragment alone gives.
C13_UndefinedNeverHides ==
    last.op = "load" =>
        \A p \in UndefinedIn(last.args[1]) : GetValue(p) = GlobalProjectValue(p)

\* the same for the keys of the override fragment itself, which
\* _sanitizeCliOptions does remove
C13_TopLevelOnly ==
    last.op = "load" =>
        \A p \in UndefinedIn(last.args[1]) : Len(p) = 1 => GetValue(p) = GlobalProjectValue(p)

-----------------------------------------------------------------------------
(* Specification SpecStorage: loadConfiguration on every condition of the files *)

\* loads and changes of a file per behaviour
MaxStorageOps == 2

\* what a config.json that parses can hold
StoredFragments ==
    {EmptyTree,
     MkObj("deploy" :> MkObj("tags" :> Leaf(Scalar(1)))),
     MkObj("hasOwnProperty" :> Leaf(Scalar(1))),
     MkObj("deploy" :> MkObj("hasOwnProperty" :> Leaf(Scalar(1))))}

StorageFiles == {Missing, Locked, Malformed} \cup {File(T) : T \in StoredFragments}

InitStorage ==
    /\ fs \in [global : StorageFiles, project : StorageFiles]
    /\ mgr = NewManager
    /\ last = NoOp
    /\ nops = 0

\* manager.loadConfiguration(cliOptions)
LoadStored == nops < MaxStorageOps /\ Load({EmptyTree, MkObj("enabled" :> Leaf(Scalar(3)))})

\* another run of the tool, or the user, replaces or removes a config.json
StorageChanges ==
    \E scope \in {"global", "project"}, file \in StorageFiles :
        /\ nops < MaxStorageOps
        /\ file # fs[scope]
        /\ fs' = [fs EXCEPT ![scope] = file]
        /\ last' = [op |-> "storage", args |-> <<scope>>, out |-> "ok", val |-> Leaf(Undefined)]
        /\ nops' = nops + 1
        /\ UNCHANGED mgr

NextStorage == LoadStored \/ StorageChanges

SpecStorage == InitStorage /\ [][NextStorage]_cfgVars

\* the fragments in memory are what the files hold, empty for a file that is
\* missing, unreadable or malformed
FragmentsAsStored ==
    /\ getConfigSources(mgr).global = FragmentOf(fs.global)
    /\ getConfigSources(mgr).project = FragmentOf(fs.project)

\* C14: for every combination of the global and the project file being missing,
\* unreadable, malformed or valid, loadConfiguration succeeds, a file that is
\* missing, unreadable or malformed contributes an empty fragment, and the fragment
\* of each scope depends on its own file only.
C14_LoadNeverFails ==
    last.op = "load" => (last.out = "ok" /\ isLoaded(mgr) /\ FragmentsAsStored)

\* tree T has a key named hasOwnProperty at some level
ShadowsHasOwnProperty(T) == \E p \in DOMAIN T : p # <<>> /\ p[Len(p)] = "hasOwnProperty"

\* what does hold: the fragments are read as stored under every condition of the
\* files, and the load succeeds when the project file has no such key
C14_TolerantRead ==
    last.op = "load" =>
        /\ FragmentsAsStored
        /\ ~ShadowsHasOwnProperty(FragmentOf(fs.project)) => (last.out = "ok" /\ isLoaded(mgr))

-----------------------------------------------------------------------------
(* Specification SpecDelete: _deleteNestedKey on nested mappings *)

\* mappings of up to three levels over two key names
DeleteLevel3 == {Leaf(Scalar(1))} \cup ObjectsOver({"deploy", "tags"}, {Leaf(Scalar(1))})
DeleteLevel2 == {Leaf(Scalar(1))} \cup ObjectsOver({"deploy", "tags"}, DeleteLevel3)
DeleteTrees == ObjectsOver({"deploy", "tags"}, DeleteLevel2)

DeletePaths == {<<"deploy">>, <<"deploy", "tags">>, <<"deploy", "deploy">>,
                <<"deploy", "tags", "tags">>, <<"deploy", "tags", "deploy">>,
                <<"deploy", "deploy", "tags">>}

InitDelete ==
    /\ fs = [global |-> Missing, project |-> Missing]
    /\ mgr = NewManager
    /\ last = NoOp
    /\ nops = 0

\* manager._deleteNestedKey(obj, keyPath) on an object of the caller
DeleteCall ==
    \E T \in DeleteTrees, p \in DeletePaths :
        LET o == Parse(<<>>, T)
            h == deleteNestedKey(o.h, o.r, p)
        IN  /\ nops = 0
            /\ nops' = 1
            /\ last' = [op |-> "deleteNestedKey", args |-> <<T, p>>, out |-> "ok",
                        val |-> DeepValue(h, o.r)]
            /\ UNCHANGED <<fs, mgr>>

NextDelete == DeleteCall

SpecDelete == InitDelete /\ [][NextDelete]_cfgVars

\* tree T without path p and everything below it
Without(T, p) ==
    [q \in {r \in DOMAIN T : ~(Len(r) >= Len(p) /\ SubSeq(r, 1, Len(p)) = p)} |-> T[q]]

\* T with the mapping at q removed if it is empty, then its parent, and so on
\* upwards, stopping at the first mapping that is not empty and at the root
RECURSIVE Pruned(_, _)
Pruned(T, q) ==
    IF q = <<>> \/ ChildKeys(T, q) # {} THEN T
    ELSE Pruned(Without(T, q), SubSeq(q, 1, Len(q) - 1))

\* C8: deleting a key path removes the leaf and then every ancestor mapping that
\* has become empty, from the deepest upwards, never the root.
C8_DeletePrunes ==
    (last.op = "deleteNestedKey" /\ last.args[2] \in DOMAIN last.args[1]) =>
        last.val = Pruned(Without(last.args[1], last.args[2]),
                          SubSeq(last.args[2], 1, Len(last.args[2]) - 1))

\* key path q is neither the leaf p, nor an ancestor of it, nor below it
OffPath(p, q) ==
    /\ ~(Len(q) <= Len(p) /\ SubSeq(p, 1, Len(q)) = q)
    /\ ~(Len(q) >= Len(p) /\ SubSeq(q, 1, Len(p)) = p)

\* C29: deleting a key path changes nothing outside the path from the root to the
\* addressed leaf: every key that is neither the leaf nor an ancestor of it keeps
\* its value, and deleting a path that is absent leaves the mapping unchanged.
C29_DeleteFrame ==
    last.op = "deleteNestedKey" =>
        /\ \A q \in DOMAIN last.args[1] :
               OffPath(last.args[2], q) =>
                   (q \in DOMAIN last.val /\ last.val[q] = last.args[1][q])
        /\ last.args[2] \notin DOMAIN last.args[1] => last.val = last.args[1]

\* what does hold: a key off the path that is not an empty mapping keeps its
\* value, and deleting an absent path changes nothing
C29_AsBuilt ==
    last.op = "deleteNestedKey" =>
        /\ \A q \in DOMAIN last.args[1] :
               (OffPath(last.args[2], q)
                  /\ ~(last.args[1][q].k = "object" /\ ChildKeys(last.args[1], q) = {}
                         /\ ~OffPath(last.args[2], SubSeq(q, 1, Len(q) - 1))))
                 => (q \in DOMAIN last.val /\ last.val[q] = last.args[1][q])
        /\ last.args[2] \notin DOMAIN last.args[1] => last.val = last.args[1]

-----------------------------------------------------------------------------
(* Specification SpecConfig: one ConfigurationManager and the two files *)

\* operations per behaviour
MaxOps == 3

ProjectFiles ==
    {Missing,
     File(EmptyTree),
     File(MkObj("deploy" :> MkObj("tags" :> Leaf(Array(2))))),
     File(MkObj("deploy" :> Leaf(Scalar(2))
                @@ "utilities" :> MkObj("copilot" :> MkObj("enabled" :> Leaf(Scalar(2))))))}

GlobalFiles ==
    {Malformed,
     File(MkObj("utilities" :> MkObj("cursor" :> MkObj("tags" :> Leaf(Scalar(1))))))}

CliOptions == {EmptyTree, MkObj("deploy" :> Leaf(Scalar(3)))}

SetPaths == {<<"enabled">>, <<"deploy", "tags">>, <<"utilities", "cursor", "enabled">>}

GetPaths == SetPaths \cup {<<"utilities", "copilot", "enabled">>}

UtilityNames == {"cursor", "copilot"}

SavedProjects == {EmptyTree, MkObj("utilities" :> MkObj("cursor" :> MkObj("tags" :> Leaf(Scalar(4)))))}

SavedGlobals == {MkObj("deploy" :> MkObj("tags" :> Leaf(Scalar(5))))}

InitConfig ==
    /\ fs \in [global : GlobalFiles, project : ProjectFiles]
    /\ mgr = NewManager
    /\ last = NoOp
    /\ nops = 0

\* the operations that change nothing
Queries == {"get", "getAll", "validateRequiredConfig"}

\* A query changes neither the manager nor the files, so every outcome it can
\* have is the outcome of asking it last: a behaviour is at most MaxOps
\* operations that change something, then one query.
CanAct == nops < MaxOps /\ last.op \notin Queries
CanAsk == last.op \notin Queries

\* manager.loadConfiguration(cliOptions)
LoadConfig == CanAct /\ Load(CliOptions)

\* manager.get(key, defaultValue)
Get ==
    \E p \in GetPaths, d \in {Undefined, Scalar(9)} :
        /\ CanAsk
        /\ last' = [op |-> "get", args |-> <<p, d>>, out |-> get(mgr, p, d).out,
                    val |-> DeepValue(mgr.heap, get(mgr, p, d).val)]
        /\ UNCHANGED <<fs, mgr, nops>>

\* manager.getAll()
GetAll ==
    /\ CanAsk
    /\ last' = [op |-> "getAll", args |-> <<>>, out |-> getAll(mgr).out,
                val |-> DeepValue(getAll(mgr).h, getAll(mgr).val)]
    /\ UNCHANGED <<fs, mgr, nops>>

\* manager.validateRequiredConfig(requiredKeys)
Validate ==
    \E ks \in {<<<<"deploy", "tags">>>>, <<<<"enabled">>, <<"deploy">>, <<"utilities", "cursor">>>>} :
        /\ CanAsk
        /\ last' = [op |-> "validateRequiredConfig", args |-> <<ks>>,
                    out |-> validateRequiredConfig(mgr, ks).out,
                    val |-> validateRequiredConfig(mgr, ks).missing]
        /\ UNCHANGED <<fs, mgr, nops>>

\* manager.set(key, value)
Set ==
    \E p \in SetPaths, v \in {Scalar(7)} :
        /\ CanAct
        /\ mgr' = Canon(set(mgr, p, v))
        /\ last' = [op |-> "set", args |-> <<p, v>>, out |-> "ok", val |-> Leaf(Undefined)]
        /\ nops' = nops + 1
        /\ UNCHANGED fs

\* manager.reset(); val keeps the merged configuration the call found
Reset ==
    /\ CanAct
    /\ mgr' = Canon(reset(mgr))
    /\ last' = [op |-> "reset", args |-> <<>>, out |-> "ok",
                val |-> DeepValue(mgr.heap, mgr.mergedConfig)]
    /\ nops' = nops + 1
    /\ UNCHANGED fs

\* manager.saveProjectConfig(config), config an object of the caller; val keeps
\* the merged configuration the call found
SaveProject ==
    \E T \in SavedProjects, writeFails \in BOOLEAN :
        LET o == Parse(mgr.heap, T)
            r == saveProjectConfig([mgr EXCEPT !.heap = o.h], fs, o.r, writeFails)
        IN  /\ CanAct
            /\ mgr' = Canon(r.c)
            /\ fs' = r.files
            /\ last' = [op |-> "saveProjectConfig", args |-> <<T, writeFails>>, out |-> r.out,
                        val |-> DeepValue(mgr.heap, mgr.mergedConfig)]
            /\ nops' = nops + 1

\* manager.saveGlobalConfig(config), config an object of the caller; val keeps
\* the merged configuration the call found
SaveGlobal ==
    \E T \in SavedGlobals, writeFails \in BOOLEAN :
        LET o == Parse(mgr.heap, T)
            r == saveGlobalConfig([mgr EXCEPT !.heap = o.h], fs, o.r, writeFails)
        IN  /\ CanAct
            /\ mgr' = Canon(r.c)
            /\ fs' = r.files
            /\ last' = [op |-> "saveGlobalConfig", args |-> <<T, writeFails>>, out |-> r.out,
                        val |-> DeepValue(mgr.heap, mgr.mergedConfig)]
            /\ nops' = nops + 1

\* manager.setUtilityConfig(utilityName, key, value)
SetUtility ==
    \E u \in UtilityNames, key \in {"enabled"}, v \in {Scalar(6), Undefined}, writeFails \in BOOLEAN :
        LET r == setUtilityConfig(mgr, fs, u, key, v, writeFails)
        IN  /\ CanAct
            /\ mgr' = Canon(r.c)
            /\ fs' = r.files
            /\ last' = [op |-> "setUtilityConfig", args |-> <<u, key, v>>, out |-> r.out,
                        val |-> Leaf(Undefined)]
            /\ nops' = nops + 1

NextConfig ==
    \/ LoadConfig
    \/ Get
    \/ GetAll
    \/ Validate
    \/ Set
    \/ Reset
    \/ SaveProject
    \/ SaveGlobal
    \/ SetUtility

SpecConfig == InitConfig /\ [][NextConfig]_cfgVars

\* C7: get, getAll and validateRequired fail with the not-loaded error exactly
\* when isLoaded() is false, isLoaded() is true exactly when a merged
\* configuration is held in memory, and all three fail on a new manager.
C7_NotLoadedGate ==
    /\ isLoaded(mgr) <=> mgr.mergedConfig.k = "object"
    /\ \A p \in GetPaths : get(mgr, p, Undefined).out = "NotLoaded" <=> ~isLoaded(mgr)
    /\ getAll(mgr).out = "NotLoaded" <=> ~isLoaded(mgr)
    /\ validateRequiredConfig(mgr, <<>>).out = "NotLoaded" <=> ~isLoaded(mgr)
    /\ last.op \in Queries => (last.out = "NotLoaded" <=> ~isLoaded(mgr))
    /\ (last.op \in Queries /\ nops = 0) => last.out = "NotLoaded"

\* a query has failed on a manager that was loaded and then reset
C7_Witness ==
    /\ last.op = "validateRequiredConfig"
    /\ last.out = "NotLoaded"
    /\ nops > 1
    /\ fs.project.st = "ok"

\* p and q address different places: neither is a prefix of the other
Apart(p, q) ==
    LET n == IF Len(p) < Len(q) THEN Len(p) ELSE Len(q)
    IN  SubSeq(p, 1, n) # SubSeq(q, 1, n)

\* trees T1 and T2 hold the same values everywhere apart from path p
SameApartFrom(T1, T2, p) ==
    /\ \A q \in DOMAIN T1 : Apart(p, q) => (q \in DOMAIN T2 /\ T2[q] = T1[q])
    /\ \A q \in DOMAIN T2 : Apart(p, q) => q \in DOMAIN T1

\* the step is a successful setUtilityConfig
SetUtilityDone == last'.op = "setUtilityConfig" /\ last'.out = "ok"

\* C9: a successful setScopedValue(scope, key, value) persists a project fragment
\* that equals the one stored before the call except at utilities.<scope>.<key>.
C9_SetUtilityFrame ==
    [][SetUtilityDone =>
          SameApartFrom(FragmentOf(fs.project), FragmentOf(fs'.project),
                        <<"utilities", last'.args[1], last'.args[2]>>)]_cfgVars

\* C10: setScopedValue(scope, key, <unset>) removes utilities.<scope>.<key>, removes
\* utilities.<scope> if and only if it became empty and utilities if and only if it
\* became empty, and keeps every sibling utilities.<other> with its keys and values.
C10_UnsetPrunes ==
    [][(SetUtilityDone /\ last'.args[3] = Undefined) =>
          LET T1 == FragmentOf(fs.project)
              T2 == FragmentOf(fs'.project)
              u  == last'.args[1]
              others == {q \in DOMAIN T1 : Len(q) >= 2 /\ q[1] = "utilities" /\ q[2] # u}
          IN  /\ <<"utilities", u, last'.args[2]>> \notin DOMAIN T2
              /\ <<"utilities", u>> \in DOMAIN T2
                    <=> \E q \in DOMAIN T1 : Len(q) = 3 /\ SubSeq(q, 1, 2) = <<"utilities", u>>
                                             /\ q[3] # last'.args[2]
              /\ <<"utilities">> \in DOMAIN T2
                    <=> (others # {} \/ <<"utilities", u>> \in DOMAIN T2)
              /\ \A q \in others : q \in DOMAIN T2 /\ T2[q] = T1[q]]_cfgVars

\* a fragment held in memory as a mapping: null counts as the empty mapping
AsMapping(T) == IF T[<<>>].k = "object" THEN T ELSE EmptyTree

\* the scope a save operation writes
SavedScope(op) == IF op = "saveProjectConfig" THEN "project" ELSE "global"

\* the step is a save that returned
SaveDone == last'.op \in {"saveProjectConfig", "saveGlobalConfig"} /\ last'.out = "ok"

\* C11: after a successful save of fragment f on a loaded manager the fragment of
\* that scope held in memory is f, the other one is kept, and the merged
\* configuration is the merge of the global and the project fragment with an empty
\* override, so that get returns nothing that only the override or set had
\* supplied; on a manager that is not loaded the save writes the file and leaves
\* the manager not loaded.
C11_SaveRemerges ==
    [][SaveDone =>
          LET scope  == SavedScope(last'.op)
              other  == IF scope = "project" THEN "global" ELSE "project"
              before == getConfigSources(mgr)
              after  == getConfigSources(mgr')
              remerged == MergedMappings(AsMapping(after.global), AsMapping(after.project))
          IN  /\ FragmentOf(fs'[scope]) = last'.args[1]
              /\ fs'[other] = fs[other]
              /\ IF isLoaded(mgr)
                 THEN /\ after[scope] = last'.args[1]
                      /\ after[other] = before[other]
                      /\ after.merged = remerged
                      /\ \A p \in GetPaths :
                            DeepValue(mgr'.heap, get(mgr', p, Undefined).val)
                                = IF p \in DOMAIN remerged THEN SubTree(remerged, p)
                                  ELSE Leaf(Undefined)
                 ELSE /\ ~isLoaded(mgr')
                      /\ after = before]_cfgVars

\* a save on a loaded manager has dropped deploy, which only the override held
C11_Witness ==
    /\ last.op = "saveProjectConfig"
    /\ last.out = "ok"
    /\ <<"deploy">> \in DOMAIN last.val
    /\ last.val[<<"deploy">>] = Scalar(3)
    /\ isLoaded(mgr)
    /\ get(mgr, <<"deploy">>, Undefined).val = Undefined
    /\ getConfigSources(mgr).project = last.args[1]

\* the step is a save whose ensureDir or writeJson threw
SaveWriteFailed == last'.op \in {"saveProjectConfig", "saveGlobalConfig"} /\ last'.args[2]

\* C12: a save whose ensureDir or writeJson fails throws FileSystemError (built
\* from the error caught), and the global, project and merged configuration held
\* in memory are exactly what they were before the call.
C12_FailedSaveKeepsMemory ==
    [][SaveWriteFailed =>
          /\ last'.out = "FileSystemError"
          /\ getConfigSources(mgr') = getConfigSources(mgr)
          /\ isLoaded(mgr') <=> isLoaded(mgr)
          /\ \A p \in GetPaths : get(mgr', p, Undefined) = get(mgr, p, Undefined)]_cfgVars

\* a save has failed on a loaded manager that still holds the override's value
\* and its global fragment
C12_Witness ==
    /\ last.op = "saveGlobalConfig"
    /\ last.out = "FileSystemError"
    /\ isLoaded(mgr)
    /\ get(mgr, <<"deploy">>, Undefined).val = Scalar(3)
    /\ getConfigSources(mgr).merged = last.val
    /\ getConfigSources(mgr).global # last.args[1]

\* the mapping that holds value v at key path p and nothing else
RECURSIVE PathTree(_, _)
PathTree(p, v) == IF p = <<>> THEN Leaf(v) ELSE MkObj(Head(p) :> PathTree(Tail(p), v))

C19_ResetIsFresh ==
    [][last'.op = "reset" =>
          /\ mgr' = NewManager
          /\ fs' = fs
          /\ ~isLoaded(mgr')
          /\ getConfigSources(mgr') = [global |-> Leaf(Null), project |-> Leaf(Null),
                                       merged |-> Leaf(Null)]
          /\ \A p \in GetPaths : get(mgr', p, Scalar(9)).out = "NotLoaded"
          /\ getAll(mgr').out = "NotLoaded"
          /\ validateRequiredConfig(mgr', <<>>).out = "NotLoaded"
          /\ Canon(reset(mgr')) = mgr']_cfgVars

\* reset has cleared a manager that held a loaded configuration with a value
\* written by set
C19_Witness ==
    /\ last.op = "reset"
    /\ <<"enabled">> \in DOMAIN last.val
    /\ last.val[<<"enabled">>] = Scalar(7)
    /\ <<"utilities", "cursor", "tags">> \in DOMAIN last.val
    /\ mgr = NewManager

\* C27: set(keyPath, value) changes only the merged configuration: the global and
\* the project fragment that getSources() reports are the same before and after
\* the call, for every key path.
C27_SetKeepsFragments ==
    [][last'.op = "set" =>
          /\ getConfigSources(mgr').global = getConfigSources(mgr).global
          /\ getConfigSources(mgr').project = getConfigSources(mgr).project]_cfgVars

\* what does hold: set keeps both fragments when no mapping on the way to the key
\* is held by a fragment; a mapping of a fragment on the way is shared with the
\* merged configuration unless both fragments hold a mapping there
C27_AsBuilt ==
    [][(last'.op = "set" /\ Len(last'.args[1]) = 1) =>
          /\ getConfigSources(mgr').global = getConfigSources(mgr).global
          /\ getConfigSources(mgr').project = getConfigSources(mgr).project]_cfgVars

\* the step is a setUtilityConfig on a loaded manager whose write failed
SetUtilityFailed ==
    /\ last'.op = "setUtilityConfig"
    /\ last'.out = "FileSystemError"
    /\ mgr.mergedConfig.k # "null"

\* C28: when persisting the project fragment fails during setScopedValue, the call
\* fails with a filesystem error and the project fragment and the merged
\* configuration held in memory are exactly what they were before the call.
C28_FailedSetKeepsMemory ==
    [][SetUtilityFailed =>
          /\ getConfigSources(mgr').project = getConfigSources(mgr).project
          /\ getConfigSources(mgr').merged = getConfigSources(mgr).merged]_cfgVars

\* what does hold: memory is kept when the project fragment holds no utilities
\* mapping, and the stored file is kept in every case
C28_AsBuilt ==
    [][SetUtilityFailed =>
          /\ fs'.project = fs.project
          /\ <<"utilities">> \notin DOMAIN getConfigSources(mgr).project
                => /\ getConfigSources(mgr').project = getConfigSources(mgr).project
                   /\ getConfigSources(mgr').merged = getConfigSources(mgr).merged]_cfgVars

-----------------------------------------------------------------------------
(* Specification SpecNested: set and get on every shape of the merged configuration *)

\* load and set operations per behaviour
MaxNestedOps == 3

\* the key paths set
NestedSetPaths == {<<"enabled">>, <<"deploy">>, <<"deploy", "tags">>,
                   <<"deploy", "tags", "enabled">>}

\* the key paths asked for
NestedGetPaths == NestedSetPaths \cup {<<"tags">>, <<"tags", "enabled">>, <<"hasOwnProperty">>,
                                       <<"deploy", "hasOwnProperty">>}

NestedValues == {Scalar(7), Scalar(8), Undefined}

InitNested ==
    /\ fs \in [global : {Missing}, project : {File(T) : T \in Fragments(2)}]
    /\ mgr = NewManager
    /\ last = NoOp
    /\ nops = 0

\* manager.loadConfiguration()
NestedLoad == nops = 0 /\ Load({EmptyTree})

\* manager.set(key, value), before or after the load
NestedSet ==
    \E p \in NestedSetPaths, v \in NestedValues :
        /\ nops < MaxNestedOps
        /\ last.op \notin Queries
        /\ mgr' = Canon(set(mgr, p, v))
        /\ last' = [op |-> "set", args |-> <<p, v>>, out |-> "ok", val |-> Leaf(Undefined)]
        /\ nops' = nops + 1
        /\ UNCHANGED fs

\* manager.get(key, defaultValue), asked last
NestedGet ==
    \E q \in NestedGetPaths, d \in {Undefined, Scalar(9)} :
        /\ last.op \notin Queries
        /\ last' = [op |-> "get", args |-> <<q, d>>, out |-> get(mgr, q, d).out,
                    val |-> DeepValue(mgr.heap, get(mgr, q, d).val)]
        /\ UNCHANGED <<fs, mgr, nops>>

\* the lists of required key paths
RequiredLists ==
    {<<>>, <<<<"deploy">>>>, <<<<"enabled">>, <<"deploy", "tags">>, <<"tags">>>>,
     <<<<"tags">>, <<"deploy", "tags", "enabled">>, <<"enabled">>>>}

\* manager.validateRequiredConfig(requiredKeys), asked last
NestedValidate ==
    \E ks \in RequiredLists :
        /\ last.op \notin Queries
        /\ last' = [op |-> "validateRequiredConfig", args |-> <<ks>>,
                    out |-> validateRequiredConfig(mgr, ks).out,
                    val |-> validateRequiredConfig(mgr, ks).missing]
        /\ UNCHANGED <<fs, mgr, nops>>

NextNested == NestedLoad \/ NestedSet \/ NestedGet \/ NestedValidate

SpecNested == InitNested /\ [][NextNested]_cfgVars

\* the merged configuration as a deep value, empty when there is none
MergedTree(c) == AsMapping(DeepValue(c.heap, c.mergedConfig))

\* the proper prefixes of key path p, the root left out
Intermediates(p) == {SubSeq(p, 1, n) : n \in 1..(Len(p) - 1)}

\* after set(p, v): p holds v, every intermediate segment holds a mapping, and
\* nothing is added or changed apart from p
SetHolds(before, after, p, v) ==
    /\ p \in DOMAIN after /\ after[p] = v
    /\ \A r \in Intermediates(p) : IsMapping(after, r)
    /\ \A q \in DOMAIN after : Apart(p, q) => (q \in DOMAIN before /\ before[q] = after[q])

\* C17: in every state of the merged configuration set(p, v) followed by get(p)
\* returns v, the intermediate segments hold mappings afterwards (created, or put in
\* the place of a scalar or a list), a second set overwrites, and get(q, d) returns
\* d for every key path q that is absent at some level.
C17_SetGet ==
    [][/\ last'.op = "set" =>
              /\ SetHolds(MergedTree(mgr), MergedTree(mgr'), last'.args[1], last'.args[2])
              /\ \A d \in {Undefined, Scalar(9)} :
                    get(mgr', last'.args[1], d) = [out |-> "ok", val |-> last'.args[2]]
       /\ (last'.op = "get" /\ last'.out = "ok" /\ last'.args[1] \notin DOMAIN MergedTree(mgr)) =>
              last'.val = Leaf(last'.args[2])]_cfgVars

\* key path q has a segment that objects inherit from Object.prototype
NamesInherited(q) == \E i \in 1..Len(q) : q[i] \in Inherited

\* what does hold: the same, with the default returned for the absent key paths
\* that have no segment named like a member of Object.prototype, and the value
\* held returned for every key path that is present
C17_AsBuilt ==
    [][/\ last'.op = "set" =>
              /\ SetHolds(MergedTree(mgr), MergedTree(mgr'), last'.args[1], last'.args[2])
              /\ \A d \in {Undefined, Scalar(9)} :
                    get(mgr', last'.args[1], d) = [out |-> "ok", val |-> last'.args[2]]
       /\ (last'.op = "get" /\ last'.out = "ok") =>
              LET q == last'.args[1]
                  M == MergedTree(mgr)
              IN  /\ q \in DOMAIN M => last'.val = SubTree(M, q)
                  /\ (q \notin DOMAIN M /\ ~NamesInherited(q)) => last'.val = Leaf(last'.args[2])]_cfgVars

\* key path p leads to a value other than undefined in tree M
Resolves(M, p) == p \in DOMAIN M /\ M[p] # Undefined

\* C18: on a loaded manager validateRequiredConfig(keys) succeeds if and only if
\* every listed key path resolves to a value other than undefined; otherwise it
\* throws a ValidationError that lists all the missing key paths in the order of
\* the input.
C18_ValidateRequired ==
    (last.op = "validateRequiredConfig" /\ isLoaded(mgr)) =>
        LET ks == last.args[1]
            M  == MergedTree(mgr)
        IN  /\ last.out \in {"ok", "ValidationError"}
            /\ last.out = "ok" <=> \A i \in 1..Len(ks) : Resolves(M, ks[i])
            /\ last.val = SelectSeq(ks, LAMBDA key : ~Resolves(M, key))

\* two of three required key paths are missing, one of them because it holds
\* undefined, and both are listed in the order of the input
C18_Witness ==
    /\ last.op = "validateRequiredConfig"
    /\ last.out = "ValidationError"
    /\ last.args[1] = <<<<"tags">>, <<"deploy", "tags", "enabled">>, <<"enabled">>>>
    /\ last.val = <<<<"tags">>, <<"enabled">>>>
    /\ <<"enabled">> \in DOMAIN MergedTree(mgr)

-----------------------------------------------------------------------------
(* CacheManager *)

\* the content of a file that fs.readFile cannot read (missing, no permission)
Unreadable == 0

\* the contents a readable file can have
Contents == {1, 2}

\* crypto.createHash('sha256').update(content).digest('hex'): a non-empty
\* string, different for different contents
sha256(content) == String(content)

\* calculateFileHash(filePath): null when the file cannot be read
calculateFileHash(files, filePath) ==
    IF files[filePath] = Unreadable THEN Null ELSE sha256(files[filePath])

\* hashCache[filePath]
Entry(hashCache, filePath) ==
    IF filePath \in DOMAIN hashCache THEN hashCache[filePath] ELSE Undefined

\* hasFileChanged that trusts the mapping when the file cannot be read
hasFileChanged_FailClosed(files, filePath, hashCache) ==
    LET currentHash == calculateFileHash(files, filePath)
        cachedHash  == Entry(hashCache, filePath)
    IN  IF ~Truthy(currentHash) THEN ~Truthy(cachedHash)
        ELSE ~Truthy(cachedHash) \/ cachedHash # currentHash

\* hasFileChanged(filePath, hashCache)
hasFileChanged(files, filePath, hashCache) ==
    LET currentHash == calculateFileHash(files, filePath)
        cachedHash  == Entry(hashCache, filePath)
    IN  IF ~Truthy(currentHash) THEN TRUE
        ELSE ~Truthy(cachedHash) \/ cachedHash # currentHash

\* updateFileHash that records the outcome of every computation
updateFileHash_Unguarded(files, filePath, hashCache) ==
    (filePath :> calculateFileHash(files, filePath)) @@ hashCache

\* updateFileHash(filePath, hashCache): the mapping after the call
updateFileHash(files, filePath, hashCache) ==
    LET hash == calculateFileHash(files, filePath)
    IN  IF Truthy(hash) THEN (filePath :> hash) @@ hashCache ELSE hashCache

\* hashes.json or detection.json in .rex/cache of a working directory
NoCacheFile      == [st |-> "missing", m |-> <<>>]
LockedCacheFile  == [st |-> "unreadable", m |-> <<>>]
BrokenCacheFile  == [st |-> "malformed", m |-> <<>>]
CacheFile(m)     == [st |-> "ok", m |-> m]

\* fs.readJson(file, {throws: false}): the stored mapping; null when the text
\* does not parse; rejects when the file cannot be read (a missing file too)
readJson(file) ==
    CASE file.st = "ok"        -> [out |-> "value", val |-> file.m]
      [] file.st = "malformed" -> [out |-> "null", val |-> <<>>]
      [] OTHER                 -> [out |-> "rejects", val |-> <<>>]

\* loadCache(): [hashCache, detectionCache]; the second file is not read when
\* the first read rejects
loadCache(store) ==
    LET hashes    == readJson(store.hashes)
        detection == readJson(store.detection)
    IN  IF hashes.out = "rejects" \/ detection.out = "rejects"
        THEN [hashCache |-> <<>>, detectionCache |-> <<>>]
        ELSE [hashCache |-> hashes.val, detectionCache |-> detection.val]

\* saveCache(hashCache, detectionCache): the store after the call; failAt names
\* the step that throws ("none", "ensureDir", "hashes", "detection")
saveCache(store, hashCache, detectionCache, failAt) ==
    CASE failAt \in {"ensureDir", "hashes"} -> store
      [] failAt = "detection" -> [store EXCEPT !.hashes = CacheFile(hashCache)]
      [] OTHER -> [hashes |-> CacheFile(hashCache), detection |-> CacheFile(detectionCache)]

\* clearCache(): the store after the call
clearCache(store, removeFails) ==
    IF removeFails THEN store ELSE [hashes |-> NoCacheFile, detection |-> NoCacheFile]

\* the loop of getChangedFiles from the i-th path on
RECURSIVE getChangedFilesFrom(_, _, _, _, _)
getChangedFilesFrom(files, hashCache, filePaths, i, lists) ==
    IF i > Len(filePaths) THEN lists
    ELSE getChangedFilesFrom(files, hashCache, filePaths, i + 1,
            IF hasFileChanged(files, filePaths[i], hashCache)
            THEN [lists EXCEPT !.changed = Append(@, filePaths[i])]
            ELSE [lists EXCEPT !.unchanged = Append(@, filePaths[i])])

\* getChangedFiles that never reads the persisted mapping
getChangedFiles_NoLoad(files, store, filePaths) ==
    getChangedFilesFrom(files, <<>>, filePaths, 1, [changed |-> <<>>, unchanged |-> <<>>])

\* getChangedFiles(filePaths): [changed, unchanged]
getChangedFiles(files, store, filePaths) ==
    getChangedFilesFrom(files, loadCache(store).hashCache, filePaths, 1,
                        [changed |-> <<>>, unchanged |-> <<>>])

-----------------------------------------------------------------------------
(* Specification SpecCache: one CacheManager, two source files, the cache *)

\* operations on the cache storage per behaviour
MaxCacheOps == 1

FilePaths == {"/a.md", "/b.md"}

\* what a fingerprint mapping can hold for a path: a digest or an empty string
Entries == {sha256(content) : content \in Contents} \cup {String(0)}

\* the mappings from some of the paths to entries
Mappings(paths) == UNION {[P -> Entries] : P \in SUBSET paths}

HashMappings == Mappings(FilePaths)

DetectionMappings == {<<>>, ("/project" :> Scalar(1))}

PathLists == {<<>>, <<"/a.md">>, <<"/a.md", "/b.md">>, <<"/b.md", "/a.md">>,
              <<"/b.md", "/a.md", "/b.md">>}

CacheStores ==
    [hashes    : {NoCacheFile, LockedCacheFile, BrokenCacheFile} \cup {CacheFile(m) : m \in HashMappings},
     detection : {NoCacheFile, LockedCacheFile, BrokenCacheFile} \cup {CacheFile(m) : m \in DetectionMappings}]

InitCache ==
    /\ fs \in [files : [FilePaths -> Contents \cup {Unreadable}], cache : CacheStores]
    /\ mgr = NewManager
    /\ last = NoOp
    /\ nops = 0

\* the operations that change nothing; each is asked last
CacheQueries == {"hasFileChanged", "updateFileHash", "getChangedFiles", "loadCache"}

\* cacheManager.loadCache()
LoadCache ==
    /\ last.op \notin CacheQueries
    /\ last' = [op |-> "loadCache", args |-> <<>>, out |-> "ok", val |-> loadCache(fs.cache)]
    /\ UNCHANGED <<fs, mgr, nops>>

\* cacheManager.hasFileChanged(filePath, hashCache)
HasFileChanged ==
    \E filePath \in FilePaths, hashCache \in HashMappings :
        /\ last.op \notin CacheQueries
        /\ last' = [op |-> "hasFileChanged", args |-> <<filePath, hashCache>>, out |-> "ok",
                    val |-> hasFileChanged(fs.files, filePath, hashCache)]
        /\ UNCHANGED <<fs, mgr, nops>>

\* cacheManager.updateFileHash(filePath, hashCache)
UpdateFileHash ==
    \E filePath \in FilePaths, hashCache \in HashMappings :
        /\ last.op \notin CacheQueries
        /\ last' = [op |-> "updateFileHash", args |-> <<filePath, hashCache>>, out |-> "ok",
                    val |-> updateFileHash(fs.files, filePath, hashCache)]
        /\ UNCHANGED <<fs, mgr, nops>>

\* cacheManager.getChangedFiles(filePaths)
GetChangedFiles ==
    \E filePaths \in PathLists :
        /\ last.op \notin CacheQueries
        /\ last' = [op |-> "getChangedFiles", args |-> <<filePaths>>, out |-> "ok",
                    val |-> getChangedFiles(fs.files, fs.cache, filePaths)]
        /\ UNCHANGED <<fs, mgr, nops>>

\* cacheManager.saveCache(hashCache, detectionCache) with what loadCache gave,
\* one fingerprint brought up to date
SaveCache ==
    \E filePath \in FilePaths, failAt \in {"none", "ensureDir", "hashes", "detection"} :
        LET loaded == loadCache(fs.cache)
        IN  /\ nops < MaxCacheOps
            /\ last.op \notin CacheQueries
            /\ fs' = [fs EXCEPT !.cache = saveCache(@, updateFileHash(fs.files, filePath, loaded.hashCache),
                                                    loaded.detectionCache, failAt)]
            /\ last' = [op |-> "saveCache", args |-> <<filePath, failAt>>, out |-> "ok",
                        val |-> Leaf(Undefined)]
            /\ nops' = nops + 1
            /\ UNCHANGED mgr

\* cacheManager.clearCache()
ClearCache ==
    \E removeFails \in BOOLEAN :
        /\ nops < MaxCacheOps
        /\ last.op \notin CacheQueries
        /\ fs' = [fs EXCEPT !.cache = clearCache(@, removeFails)]
        /\ last' = [op |-> "clearCache", args |-> <<removeFails>>, out |-> "ok",
                    val |-> Leaf(Undefined)]
        /\ nops' = nops + 1
        /\ UNCHANGED mgr

NextCache ==
    \/ LoadCache
    \/ HasFileChanged
    \/ UpdateFileHash
    \/ GetChangedFiles
    \/ SaveCache
    \/ ClearCache

SpecCache == InitCache /\ [][NextCache]_cfgVars

\* C4: hasChanged is true whenever the file cannot be read, whatever the mapping
\* holds; for a readable file it is true exactly when the mapping has no entry
\* for the path or the entry differs from the fingerprint of the current content.
C4_HasChanged ==
    last.op = "hasFileChanged" =>
        LET filePath  == last.args[1]
            hashCache == last.args[2]
        IN  IF fs.files[filePath] = Unreadable
            THEN last.val = TRUE
            ELSE last.val <=> (filePath \notin DOMAIN hashCache
                               \/ hashCache[filePath] # sha256(fs.files[filePath]))

\* an unreadable file whose path has an entry was reported as changed
C4_Witness ==
    /\ last.op = "hasFileChanged"
    /\ fs.files[last.args[1]] = Unreadable
    /\ last.args[1] \in DOMAIN last.args[2]
    /\ last.val = TRUE

\* the number of times a path occurs in a list
Occurrences(list, filePath) == Cardinality({i \in DOMAIN list : list[i] = filePath})

\* the two lists partition filePaths, keep its order, and unchanged holds the
\* paths for which hasChanged against hashCache is false
Classified(filePaths, lists, hashCache) ==
    /\ \A filePath \in FilePaths :
          Occurrences(filePaths, filePath)
              = Occurrences(lists.changed, filePath) + Occurrences(lists.unchanged, filePath)
    /\ \A filePath \in FilePaths :
          Occurrences(lists.changed, filePath) = 0 \/ Occurrences(lists.unchanged, filePath) = 0
    /\ lists.unchanged = SelectSeq(filePaths, LAMBDA f : ~hasFileChanged(fs.files, f, hashCache))
    /\ lists.changed = SelectSeq(filePaths, LAMBDA f : hasFileChanged(fs.files, f, hashCache))

\* the fingerprint mapping that hashes.json holds
PersistedHashes(store) == IF store.hashes.st = "ok" THEN store.hashes.m ELSE <<>>

\* C5 as stated: classify partitions the input in input order, unchanged holding
\* the paths for which hasChanged is false against the persisted fingerprint mapping.
C5_AsClaimed ==
    last.op = "getChangedFiles" =>
        Classified(last.args[1], last.val, PersistedHashes(fs.cache))

\* C5: classify partitions the input in input order, unchanged holding the paths
\* for which hasChanged is false against the fingerprint mapping that load returns:
\* the persisted one, or the empty one when reading either cache file fails.
C5_Classify ==
    last.op = "getChangedFiles" =>
        Classified(last.args[1], last.val,
                   IF "unreadable" \in {fs.cache.hashes.st, fs.cache.detection.st}
                      \/ "missing" \in {fs.cache.hashes.st, fs.cache.detection.st}
                   THEN <<>> ELSE PersistedHashes(fs.cache))

\* a list with a repeated path was split into a changed and an unchanged part
C5_Witness ==
    /\ last.op = "getChangedFiles"
    /\ Len(last.args[1]) = 3
    /\ last.val.changed = <<"/a.md">>
    /\ last.val.unchanged = <<"/b.md", "/b.md">>

\* C6: updateFingerprint writes the current fingerprint at filePath when the file
\* can be read, leaves the whole mapping untouched when it cannot, and never
\* changes the entry of another path.
C6_UpdateFingerprint ==
    last.op = "updateFileHash" =>
        LET filePath  == last.args[1]
            hashCache == last.args[2]
        IN  /\ \A other \in FilePaths \ {filePath} :
                  /\ other \in DOMAIN last.val <=> other \in DOMAIN hashCache
                  /\ other \in DOMAIN hashCache => last.val[other] = hashCache[other]
            /\ IF fs.files[filePath] = Unreadable
               THEN last.val = hashCache
               ELSE /\ filePath \in DOMAIN last.val
                    /\ last.val[filePath] = sha256(fs.files[filePath])

\* the file could not be read and the stale entry of its path was kept
C6_Witness ==
    /\ last.op = "updateFileHash"
    /\ fs.files[last.args[1]] = Unreadable
    /\ last.args[1] \in DOMAIN last.args[2]
    /\ last.val = last.args[2]
    /\ DOMAIN last.val = FilePaths

\* what a cache file holds when it is there and parses, nothing otherwise
StoredMapping(file) == IF file.st = "ok" THEN file.m ELSE <<>>

\* reading or parsing the file fails
ReadFails(file) == file.st \in {"unreadable", "malformed"}

\* C15: loadCache never throws; when exactly one of hashes.json and detection.json
\* is missing it returns an empty mapping for that one and the stored content for
\* the other; when reading or parsing either file fails it returns two empty
\* mappings.
C15_LoadCache ==
    last.op = "loadCache" =>
        LET hashes    == fs.cache.hashes
            detection == fs.cache.detection
        IN  /\ last.out = "ok"
            /\ (ReadFails(hashes) \/ ReadFails(detection))
                  => last.val = [hashCache |-> <<>>, detectionCache |-> <<>>]
            /\ (~ReadFails(hashes) /\ ~ReadFails(detection)
                    /\ (hashes.st = "missing") # (detection.st = "missing"))
                  => last.val = [hashCache |-> StoredMapping(hashes),
                                 detectionCache |-> StoredMapping(detection)]

\* what does hold: loadCache never throws, returns what the two files hold when
\* both are read, with an empty mapping for a file that does not parse, and two
\* empty mappings when either file is missing or unreadable
C15_AsBuilt ==
    last.op = "loadCache" =>
        LET hashes    == fs.cache.hashes
            detection == fs.cache.detection
        IN  /\ last.out = "ok"
            /\ last.val = IF {hashes.st, detection.st} \cap {"missing", "unreadable"} # {}
                          THEN [hashCache |-> <<>>, detectionCache |-> <<>>]
                          ELSE [hashCache |-> StoredMapping(hashes),
                                detectionCache |-> StoredMapping(detection)]

-----------------------------------------------------------------------------
(* CompilationManager *)

\* utilityRunner.getUtilityNames()
getUtilityNames == <<"github-copilot", "cursor">>

\* PromptManager.listPrompts(): the files of ~/.rex/prompts
listPrompts == <<"a.md", "b.md">>

\* no artifact of a utility for a prompt in ~/.rex/compiled/<utility>
NoArtifact == 0

\* x is an element of list
Includes(list, x) == \E i \in DOMAIN list : list[i] = x

\* cleanCompiled(): ~/.rex/compiled after the call
cleanCompiled(compiled) ==
    [utilityName \in DOMAIN compiled |-> [name \in DOMAIN compiled[utilityName] |-> NoArtifact]]

\* getPromptsThatNeedCompilation(prompts): [changed, unchanged]; the path of a
\* prompt is ~/.rex/prompts/<name>, one path per name
getPromptsThatNeedCompilation(d, cwd, prompts) ==
    LET lists == getChangedFiles(d.prompts, d.cache[cwd], prompts)
    IN  [changed   |-> SelectSeq(prompts, LAMBDA name : Includes(lists.changed, name)),
         unchanged |-> SelectSeq(prompts, LAMBDA name : Includes(lists.unchanged, name))]

\* the loop of compileWithUtility from the i-th prompt on; s holds the compiled
\* directory, the mapping in memory and the results.  fails: the pairs of
\* utility and prompt for which execute throws or returns success: false
RECURSIVE compileWithUtilityFrom(_, _, _, _, _, _, _)
compileWithUtilityFrom(files, utilityName, prompts, incremental, fails, i, s) ==
    IF i > Len(prompts) THEN s
    ELSE LET name == prompts[i]
             promptContent == files[name]
             success == promptContent # Unreadable /\ <<utilityName, name>> \notin fails
         IN  compileWithUtilityFrom(files, utilityName, prompts, incremental, fails, i + 1,
                IF success
                THEN [compiled  |-> [s.compiled EXCEPT ![utilityName][name] = promptContent],
                      hashCache |-> IF incremental
                                    THEN updateFileHash(files, name, s.hashCache)
                                    ELSE s.hashCache,
                      results   |-> Append(s.results, [prompt |-> name, success |-> TRUE])]
                ELSE [s EXCEPT !.results = Append(@, [prompt |-> name, success |-> FALSE])])

\* compileWithUtility that never saves the mapping it brought up to date
compileWithUtility_NoSave(d, cwd, utilityName, prompts, incremental, fails, failAt) ==
    LET s == compileWithUtilityFrom(d.prompts, utilityName, prompts, incremental, fails, 1,
                [compiled  |-> d.compiled,
                 hashCache |-> IF incremental THEN loadCache(d.cache[cwd]).hashCache ELSE <<>>,
                 results   |-> <<>>])
    IN  [d |-> [d EXCEPT !.compiled = s.compiled], results |-> s.results]

\* compileWithUtility(utilityName, prompts, incremental): [d, results]
compileWithUtility(d, cwd, utilityName, prompts, incremental, fails, failAt) ==
    LET store == d.cache[cwd]
        s == compileWithUtilityFrom(d.prompts, utilityName, prompts, incremental, fails, 1,
                [compiled  |-> d.compiled,
                 hashCache |-> IF incremental THEN loadCache(store).hashCache ELSE <<>>,
                 results   |-> <<>>])
    IN  [d |-> [d EXCEPT !.compiled = s.compiled,
                         !.cache[cwd] = IF incremental
                                        THEN saveCache(store, s.hashCache,
                                                       loadCache(store).detectionCache, failAt)
                                        ELSE store],
         results |-> s.results]

\* "const compiledResults = await this.compileWithUtility(...)": what the loop of
\* compile has so far, results being the compiledResults of the utilities in turn
Collected(results, r) == [d |-> r.d, results |-> results \o r.results]

\* the loop of compile over the target utilities, from the i-th on
RECURSIVE compileFrom(_, _, _, _, _, _, _, _)
compileFrom(acc, cwd, targetUtilities, promptsToCompile, incremental, fails, failAt, i) ==
    IF i > Len(targetUtilities) THEN acc
    ELSE compileFrom(Collected(acc.results,
                               compileWithUtility(acc.d, cwd, targetUtilities[i], promptsToCompile,
                                                  incremental, fails, failAt)),
                     cwd, targetUtilities, promptsToCompile, incremental, fails, failAt, i + 1)

\* compile from "for (const utilityName of targetUtilities)" on
compileChanged(cleaned, cwd, targetUtilities, needed, incremental, fails, failAt) ==
    LET acc == compileFrom([d |-> cleaned, results |-> <<>>], cwd, targetUtilities,
                           needed.changed, incremental, fails, failAt, 1)
    IN  [d |-> acc.d, out |-> "ok", compiledUtilities |-> targetUtilities,
         compiledPrompts |-> needed.changed, skippedPrompts |-> needed.unchanged,
         results |-> acc.results]

\* compile(options) run in working directory cwd:
\* [d, out, compiledUtilities, compiledPrompts, skippedPrompts, results], results
\* being what the calls of compileWithUtility returned, which compile drops
compile(d, cwd, options, fails, failAt) ==
    LET cleaned == IF options.clean
                   THEN [d EXCEPT !.compiled = cleanCompiled(@),
                                  !.cache[cwd] = IF options.incremental
                                                 THEN clearCache(@, FALSE) ELSE @]
                   ELSE d
        targetUtilities == IF options.utilities.given THEN options.utilities.names
                           ELSE getUtilityNames
        targetPrompts == IF ~options.all /\ options.promptNames.given
                         THEN SelectSeq(listPrompts, LAMBDA name : name \in options.promptNames.names)
                         ELSE listPrompts
        needed == IF options.incremental /\ ~options.clean
                  THEN getPromptsThatNeedCompilation(cleaned, cwd, targetPrompts)
                  ELSE [changed |-> targetPrompts, unchanged |-> <<>>]
    IN  IF Len(targetPrompts) = 0
        THEN [d |-> cleaned, out |-> "failed", compiledUtilities |-> <<>>,
              compiledPrompts |-> <<>>, skippedPrompts |-> <<>>, results |-> <<>>]
        ELSE IF Len(needed.changed) = 0
        THEN [d |-> cleaned, out |-> "ok", compiledUtilities |-> targetUtilities,
              compiledPrompts |-> <<>>, skippedPrompts |-> needed.unchanged, results |-> <<>>]
        ELSE compileChanged(cleaned, cwd, targetUtilities, needed, options.incremental,
                            fails, failAt)

-----------------------------------------------------------------------------
(* Specification SpecCompile: compile runs and edits of the prompt files *)

\* compile runs and edits per behaviour
MaxSteps == 3

\* process.cwd() of a run
Cwds == {"/work/one", "/work/two"}

\* --utilities
UtilityChoices ==
    {[given |-> FALSE, names |-> <<>>],
     [given |-> TRUE, names |-> <<"cursor">>],
     [given |-> TRUE, names |-> <<"github-copilot">>]}

\* --all and --prompts
PromptChoices ==
    {[all |-> TRUE, given |-> FALSE, names |-> {}],
     [all |-> FALSE, given |-> TRUE, names |-> {"a.md"}],
     [all |-> FALSE, given |-> TRUE, names |-> {"missing.md"}]}

\* what goes wrong in a run: the executions that fail, the step of saveCache
\* that throws
FaultChoices ==
    {[fails |-> {}, failAt |-> "none"],
     [fails |-> {<<"cursor", "a.md">>}, failAt |-> "none"],
     [fails |-> {}, failAt |-> "ensureDir"]}

InitCompile ==
    /\ fs = [prompts  |-> [name \in {"a.md", "b.md"} |-> 1],
             compiled |-> [utilityName \in {"github-copilot", "cursor"} |->
                              [name \in {"a.md", "b.md"} |-> NoArtifact]],
             cache    |-> [cwd \in Cwds |-> [hashes |-> NoCacheFile, detection |-> NoCacheFile]]]
    /\ mgr = NewManager
    /\ last = NoOp
    /\ nops = 0

\* rex utility compile, from working directory cwd
CompileRun ==
    \E cwd \in Cwds, utilities \in UtilityChoices, prompts \in PromptChoices,
       clean \in BOOLEAN, incremental \in BOOLEAN, faults \in FaultChoices :
        LET options == [utilities |-> utilities, all |-> prompts.all, clean |-> clean,
                        promptNames |-> [given |-> prompts.given, names |-> prompts.names],
                        incremental |-> incremental]
            r == compile(fs, cwd, options, faults.fails, faults.failAt)
        IN  /\ nops < MaxSteps
            /\ fs' = r.d
            /\ last' = [op |-> "compile", args |-> <<cwd, options, faults>>, out |-> r.out,
                        val |-> [compiledUtilities |-> r.compiledUtilities,
                                 compiledPrompts   |-> r.compiledPrompts,
                                 skippedPrompts    |-> r.skippedPrompts,
                                 results           |-> r.results]]
            /\ nops' = nops + 1
            /\ UNCHANGED mgr

\* a prompt file is edited, or made unreadable, between two runs
EditPrompt ==
    \E name \in DOMAIN fs.prompts, content \in Contents \cup {Unreadable} :
        /\ nops < MaxSteps
        /\ content # fs.prompts[name]
        /\ fs' = [fs EXCEPT !.prompts[name] = content]
        /\ last' = [op |-> "edit", args |-> <<name, content>>, out |-> "ok",
                    val |-> Leaf(Undefined)]
        /\ nops' = nops + 1
        /\ UNCHANGED mgr

NextCompile ==
    \/ CompileRun
    \/ EditPrompt

SpecCompile == InitCompile /\ [][NextCompile]_cfgVars

\* C2: whenever a compile run skips a prompt as unchanged, the artifact of every
\* utility the run targets exists for that prompt and was produced from the
\* prompt's current content.
C2_NoMissedRecompilation ==
    (last.op = "compile" /\ last.out = "ok") =>
        \A i \in DOMAIN last.val.skippedPrompts, j \in DOMAIN last.val.compiledUtilities :
            LET name == last.val.skippedPrompts[i]
                utilityName == last.val.compiledUtilities[j]
            IN  /\ fs.compiled[utilityName][name] # NoArtifact
                /\ fs.compiled[utilityName][name] = fs.prompts[name]

\* the elements of a list
Elems(list) == {list[i] : i \in DOMAIN list}

\* no execution of the run failed
NoFailure(val) == \A i \in DOMAIN val.results : val.results[i].success

\* this step is a compile run that follows a compile run at once, from the same
\* working directory and with the same options
Rerun ==
    /\ last.op = "compile"
    /\ last'.op = "compile"
    /\ last'.args[1] = last.args[1]
    /\ last'.args[2] = last.args[2]

\* the rerun compiles nothing and skips what the run before targeted
AllSkipped ==
    /\ last'.out = "ok"
    /\ last'.val.compiledPrompts = <<>>
    /\ Elems(last'.val.skippedPrompts)
          = Elems(last.val.compiledPrompts) \cup Elems(last.val.skippedPrompts)

\* C21 as stated: after an incremental compile run in which every targeted prompt
\* compiled successfully, a run that follows at once with the same options from
\* the same working directory compiles 0 prompts and skips every targeted prompt.
C21_AsClaimed ==
    [][(Rerun /\ last.out = "ok" /\ last.args[2].incremental /\ NoFailure(last.val))
          => AllSkipped]_cfgVars

\* C21: the same, for runs without the clean option, when the first run saved the
\* fingerprint mapping: the run that follows compiles 0 prompts and skips every
\* targeted prompt.
C21_IncrementalRerun ==
    [][(Rerun /\ last.out = "ok" /\ last.args[2].incremental /\ NoFailure(last.val)
          /\ ~last.args[2].clean /\ last.args[3].failAt = "none")
          => AllSkipped]_cfgVars

\* the second of two runs with all utilities and all prompts skipped both prompts,
\* every artifact being there
C21_Witness ==
    /\ nops = 2
    /\ last.op = "compile"
    /\ last.args[2].incremental /\ ~last.args[2].clean
    /\ ~last.args[2].utilities.given /\ last.args[2].all
    /\ last.val.compiledPrompts = <<>>
    /\ last.val.skippedPrompts = listPrompts
    /\ \A utilityName \in DOMAIN fs.compiled, name \in DOMAIN fs.prompts :
          fs.compiled[utilityName][name] # NoArtifact

\* the prompts for which an execution of the run failed
Failed(val) == {val.results[i].prompt : i \in {j \in DOMAIN val.results : ~val.results[j].success}}

\* C24: a prompt whose compilation failed for at least one utility of an
\* incremental run that targets several utilities is classified as changed by the
\* next incremental run from the same working directory that targets it.
C24_FailedStaysChanged ==
    [][(/\ last.op = "compile" /\ last.out = "ok"
        /\ last.args[2].incremental
        /\ Len(last.val.compiledUtilities) > 1
        /\ last'.op = "compile" /\ last'.out = "ok"
        /\ last'.args[1] = last.args[1]
        /\ last'.args[2].incremental /\ ~last'.args[2].clean)
          => \A name \in Failed(last.val) :
                name \notin Elems(last'.val.skippedPrompts)]_cfgVars

-----------------------------------------------------------------------------
(* SmartDetectionManager *)

\* the default of isCacheValid's maxAgeMinutes
maxAgeMinutes == 30

\* Object.keys(this.detectionRules), in the order of the constructor
detectionRuleNames == <<"github-copilot", "vscode", "cursor">>

\* process.cwd()
Cwd == "/work/one"

\* path.resolve(projectDir)
resolve(projectDir) == IF projectDir = "." THEN Cwd ELSE projectDir

\* new Date(timestamp): the time in minutes, not valid when the text is no date
DateOf(timestamp) ==
    IF timestamp.k = "iso" THEN [valid |-> TRUE, t |-> timestamp.v] ELSE [valid |-> FALSE, t |-> 0]

\* detectionCache[cacheKey]
CachedResult(detectionCache, cacheKey) ==
    IF cacheKey \in DOMAIN detectionCache THEN detectionCache[cacheKey] ELSE Undefined

\* a result is an object with a timestamp property; null and undefined are none
Timestamp(cachedResult) == IF cachedResult.k = "result" THEN cachedResult.timestamp ELSE Undefined

\* isCacheValid with an entry of exactly maxAgeMinutes taken as valid
isCacheValid_Inclusive(cachedResult, now) ==
    IF cachedResult.k # "result" \/ ~Truthy(Timestamp(cachedResult)) THEN FALSE
    ELSE LET cacheTime == DateOf(Timestamp(cachedResult))
         IN  cacheTime.valid /\ (now - cacheTime.t) <= maxAgeMinutes

\* isCacheValid(cachedResult) at time now; a comparison with NaN is false
isCacheValid(cachedResult, now) ==
    IF cachedResult.k # "result" \/ ~Truthy(Timestamp(cachedResult)) THEN FALSE
    ELSE LET cacheTime == DateOf(Timestamp(cachedResult))
         IN  cacheTime.valid /\ (now - cacheTime.t) < maxAgeMinutes

\* detectUtilities(projectDir) at time now: the utilities with a rule path present
\* under the directory, in the order of the rules (detectionDetails, which repeats
\* what was found per utility, is left out)
detectUtilities(present, projectDir, now) ==
    [k |-> "result",
     projectDir |-> projectDir,
     detectedUtilities |-> SelectSeq(detectionRuleNames,
                                     LAMBDA name : name \in present[resolve(projectDir)]),
     timestamp |-> IsoTime(now)]

\* detectWithCache(projectDir, detectionCache): [cache, out, result, log]; fails: a
\* file operation of detectUtilities throws; log is what console.log prints
detectWithCache(present, projectDir, detectionCache, now, fails) ==
    LET cacheKey     == resolve(projectDir)
        cachedResult == CachedResult(detectionCache, cacheKey)
        result       == detectUtilities(present, projectDir, now)
    IN  IF isCacheValid(cachedResult, now)
        THEN [cache |-> detectionCache, out |-> "ok", result |-> cachedResult, log |-> "cached"]
        ELSE IF fails
        THEN [cache |-> detectionCache, out |-> "throws", result |-> Undefined, log |-> "detecting"]
        ELSE [cache |-> (cacheKey :> result) @@ detectionCache, out |-> "ok", result |-> result,
              log |-> "detecting"]

-----------------------------------------------------------------------------
(* Specification SpecDetect: one SmartDetectionManager, a clock, a detection cache *)

\* operations and clock ticks per behaviour
MaxDetectOps == 3

\* the time at the start, in minutes
StartTime == 30

ProjectDirs == {"/work/one", "/work/two"}

\* the utilities whose rule paths exist under a directory
PresentChoices == {{}, {"cursor"}, {"github-copilot", "cursor"}}

\* the timestamps an entry of detection.json can carry: none, an empty string, a
\* text that is no date, and times before and after the start
StoredTimestamps ==
    {Undefined, String(0), String(1)} \cup {IsoTime(t) : t \in {0, 1, 30, 45}}

\* the entries of detection.json
StoredResults ==
    {Null} \cup {[k |-> "result", projectDir |-> Cwd, detectedUtilities |-> u, timestamp |-> ts] :
                    u \in {<<>>, <<"vscode">>}, ts \in StoredTimestamps}

InitDetect ==
    /\ fs \in [now     : {StartTime},
                present : {("/work/one" :> P) @@ ("/work/two" :> {}) : P \in PresentChoices},
                cache   : {<<>>} \cup {(Cwd :> r) : r \in StoredResults}]
    /\ mgr = NewManager
    /\ last = NoOp
    /\ nops = 0

\* detectionManager.detectWithCache(projectDir, detectionCache); val keeps the
\* result, what was logged and the entry the call found
DetectWithCache ==
    \E projectDir \in ProjectDirs \cup {"."}, fails \in BOOLEAN :
        LET r == detectWithCache(fs.present, projectDir, fs.cache, fs.now, fails)
        IN  /\ nops < MaxDetectOps
            /\ fs' = [fs EXCEPT !.cache = r.cache]
            /\ last' = [op |-> "detectWithCache", args |-> <<projectDir, fails>>, out |-> r.out,
                        val |-> [result |-> r.result, log |-> r.log,
                                 found |-> CachedResult(fs.cache, resolve(projectDir))]]
            /\ nops' = nops + 1
            /\ UNCHANGED mgr

\* time passes
Tick ==
    \E minutes \in {1, 29} :
        /\ nops < MaxDetectOps
        /\ fs' = [fs EXCEPT !.now = @ + minutes]
        /\ last' = [op |-> "tick", args |-> <<minutes>>, out |-> "ok", val |-> Leaf(Undefined)]
        /\ nops' = nops + 1
        /\ UNCHANGED mgr

\* the rule paths under the working directory are created or removed
ProjectChanges ==
    \E P \in PresentChoices :
        /\ nops < MaxDetectOps
        /\ P # fs.present[Cwd]
        /\ fs' = [fs EXCEPT !.present[Cwd] = P]
        /\ last' = [op |-> "project", args |-> <<P>>, out |-> "ok", val |-> Leaf(Undefined)]
        /\ nops' = nops + 1
        /\ UNCHANGED mgr

NextDetect == DetectWithCache \/ Tick \/ ProjectChanges

SpecDetect == InitDetect /\ [][NextDetect]_cfgVars

\* the entry for the directory carries a time less than maxAgeMinutes before now
FreshEntry(cache, cacheKey, now) ==
    /\ cacheKey \in DOMAIN cache
    /\ cache[cacheKey].k = "result"
    /\ cache[cacheKey].timestamp.k = "iso"
    /\ now - cache[cacheKey].timestamp.v < 30

\* C20: detectWithCache returns the cached result of the directory without a new
\* detection only if that result has a timestamp and now - timestamp is less than
\* 30 minutes; when the entry is absent, has no timestamp, or is 30 minutes old or
\* older, it detects anew, replaces the entry of that directory alone by the new
\* result with the new timestamp, and returns the new result.
C20_DetectWithCache ==
    [][(last'.op = "detectWithCache" /\ last'.out = "ok") =>
          LET cacheKey == resolve(last'.args[1])
          IN  IF FreshEntry(fs.cache, cacheKey, fs.now)
              THEN /\ last'.val.result = fs.cache[cacheKey]
                   /\ last'.val.log = "cached"
                   /\ fs'.cache = fs.cache
              ELSE /\ last'.val.log = "detecting"
                   /\ last'.val.result.timestamp = IsoTime(fs.now)
                   /\ last'.val.result.projectDir = last'.args[1]
                   /\ \A i \in DOMAIN detectionRuleNames :
                         (\E j \in DOMAIN last'.val.result.detectedUtilities :
                              last'.val.result.detectedUtilities[j] = detectionRuleNames[i])
                             <=> detectionRuleNames[i] \in fs.present[cacheKey]
                   /\ DOMAIN fs'.cache = DOMAIN fs.cache \cup {cacheKey}
                   /\ fs'.cache[cacheKey] = last'.val.result
                   /\ \A key \in DOMAIN fs.cache \ {cacheKey} : fs'.cache[key] = fs.cache[key]]_cfgVars

\* an entry exactly 30 minutes old has been replaced by a new detection that
\* found other utilities
C20_Witness ==
    /\ last.op = "detectWithCache"
    /\ last.out = "ok"
    /\ last.args[1] = "."
    /\ last.val.log = "detecting"
    /\ last.val.found.k = "result"
    /\ last.val.found.timestamp = IsoTime(0)
    /\ last.val.found.detectedUtilities = <<"vscode">>
    /\ fs.now = 30
    /\ fs.cache[Cwd] = last.val.result
    /\ fs.cache[Cwd].timestamp = IsoTime(30)
    /\ fs.cache[Cwd].detectedUtilities = <<"github-copilot", "cursor">>

-----------------------------------------------------------------------------
(* Specification SpecRace: a compile run, step by step, beside another process *)

\* compile runs started and edits by the other process, per behaviour
MaxRaceOps == 4

\* no compile run is in progress
NoRun == [pc |-> "idle", prompts |-> <<>>, i |-> 0, promptContent |-> Unreadable,
          hashCache |-> <<>>]

InitRace ==
    /\ fs = [prompts  |-> [name \in {"a.md", "b.md"} |-> 1],
             compiled |-> [utilityName \in {"cursor"} |-> [name \in {"a.md", "b.md"} |-> NoArtifact]],
             cache    |-> [cwd \in {Cwd} |-> [hashes |-> NoCacheFile, detection |-> NoCacheFile]],
             run      |-> NoRun]
    /\ mgr = NewManager
    /\ last = NoOp
    /\ nops = 0

\* the step of the run after the i-th prompt is dealt with
Advance(run) ==
    IF run.i < Len(run.prompts)
    THEN [run EXCEPT !.pc = "read", !.i = @ + 1]
    ELSE [run EXCEPT !.pc = "save"]

\* compile({utilities: ['cursor']}) run in Cwd, up to the loop of
\* compileWithUtility: the prompts are classified and the mapping is loaded
StartRun ==
    LET needed == getPromptsThatNeedCompilation(fs, Cwd, listPrompts)
    IN  /\ fs.run.pc = "idle"
        /\ nops < MaxRaceOps
        /\ fs' = [fs EXCEPT !.run = IF Len(needed.changed) = 0 THEN NoRun
                                    ELSE [pc |-> "read", prompts |-> needed.changed, i |-> 1,
                                          promptContent |-> Unreadable,
                                          hashCache |-> loadCache(fs.cache[Cwd]).hashCache]]
        /\ last' = [op |-> "start", args |-> <<>>, out |-> "ok", val |-> needed]
        /\ nops' = nops + 1
        /\ UNCHANGED mgr

\* "const promptContent = await fs.readFile(promptPath, 'utf8')"
ReadPrompt ==
    /\ fs.run.pc = "read"
    /\ fs' = [fs EXCEPT !.run.promptContent = fs.prompts[fs.run.prompts[fs.run.i]],
                        !.run.pc = "execute"]
    /\ last' = [op |-> "read", args |-> <<fs.run.prompts[fs.run.i]>>, out |-> "ok",
                val |-> Leaf(Undefined)]
    /\ UNCHANGED <<mgr, nops>>

\* "const result = await utility.execute({...})": the artifact is written from the
\* content that was read, or the execution fails
Execute ==
    \E success \in BOOLEAN :
        /\ fs.run.pc = "execute"
        /\ fs' = IF success
                 THEN [fs EXCEPT !.compiled["cursor"][fs.run.prompts[fs.run.i]] = fs.run.promptContent,
                                 !.run.pc = "update"]
                 ELSE [fs EXCEPT !.run = Advance(@)]
        /\ last' = [op |-> "execute", args |-> <<fs.run.prompts[fs.run.i]>>,
                    out |-> IF success THEN "ok" ELSE "failed", val |-> Leaf(Undefined)]
        /\ UNCHANGED <<mgr, nops>>

\* "await cacheManager.updateFileHash(promptPath, hashCache)"
UpdateHash ==
    /\ fs.run.pc = "update"
    /\ fs' = [fs EXCEPT !.run = Advance([@ EXCEPT !.hashCache =
                                updateFileHash(fs.prompts, fs.run.prompts[fs.run.i], @)])]
    /\ last' = [op |-> "update", args |-> <<fs.run.prompts[fs.run.i]>>, out |-> "ok",
                val |-> Leaf(Undefined)]
    /\ UNCHANGED <<mgr, nops>>

\* "await cacheManager.saveCache(hashCache, detectionCache)" and the return of compile
SaveRun ==
    /\ fs.run.pc = "save"
    /\ fs' = [fs EXCEPT !.cache[Cwd] = saveCache(@, fs.run.hashCache,
                                                 loadCache(@).detectionCache, "none"),
                        !.run = NoRun]
    /\ last' = [op |-> "save", args |-> <<>>, out |-> "ok", val |-> Leaf(Undefined)]
    /\ UNCHANGED <<mgr, nops>>

\* another process writes a prompt file, at any moment
OtherEdit ==
    \E name \in DOMAIN fs.prompts, content \in Contents :
        /\ nops < MaxRaceOps
        /\ content # fs.prompts[name]
        /\ fs' = [fs EXCEPT !.prompts[name] = content]
        /\ last' = [op |-> "edit", args |-> <<name, content>>, out |-> "ok",
                    val |-> Leaf(Undefined)]
        /\ nops' = nops + 1
        /\ UNCHANGED mgr

NextRace ==
    \/ StartRun
    \/ ReadPrompt
    \/ Execute
    \/ UpdateHash
    \/ SaveRun
    \/ OtherEdit

SpecRace == InitRace /\ [][NextRace]_cfgVars

\* C25: the fingerprint a run records is that of the content it compiled: when a
\* run starts, every prompt whose artifact was not made from the prompt's current
\* content is classified as changed.
C25_FingerprintOfCompiled ==
    last.op = "start" =>
        \A name \in DOMAIN fs.prompts :
            fs.compiled["cursor"][name] # fs.prompts[name] => Includes(last.val.changed, name)

-----------------------------------------------------------------------------
(* CompilationManager: watch mode *)

\* the closure of compileWithWatch once the initial compile is over and the
\* watcher is set up: timers holds the setTimeout callbacks that are pending,
\* running the calls of compile that have not returned, stopped tells that
\* cleanup ran
NewWatch == [isCompiling |-> FALSE, compileTimeout |-> Null, timers |-> {}, running |-> 0,
             stopped |-> FALSE]

\* clearTimeout(handle)
clearTimeout(timers, handle) == {t \in timers : Scalar(t.id) # handle}

\* triggerCompile that leaves the pending timer alone
triggerCompile_NoClear(w, id, eventType, filePath) ==
    IF w.isCompiling THEN w
    ELSE [w EXCEPT !.timers = @ \cup {[id |-> id, eventType |-> eventType, filePath |-> filePath]},
                   !.compileTimeout = Scalar(id)]

\* triggerCompile(eventType, filePath): the closure after the call; id is the
\* handle that setTimeout returns
triggerCompile(w, id, eventType, filePath) ==
    IF w.isCompiling THEN w
    ELSE [w EXCEPT !.timers = (IF Truthy(w.compileTimeout)
                               THEN clearTimeout(@, w.compileTimeout) ELSE @)
                                 \cup {[id |-> id, eventType |-> eventType, filePath |-> filePath]},
                   !.compileTimeout = Scalar(id)]

\* the callback of setTimeout up to the call of compile
timerCallback(w, t) ==
    [w EXCEPT !.timers = @ \ {t}, !.isCompiling = TRUE, !.running = @ + 1]

\* the callback from the return of compile on: try, catch and finally
compileSettled(w) == [w EXCEPT !.running = @ - 1, !.isCompiling = FALSE]

\* cleanup()
cleanup(w) ==
    [w EXCEPT !.timers = IF Truthy(w.compileTimeout) THEN clearTimeout(@, w.compileTimeout) ELSE @,
              !.stopped = TRUE]

-----------------------------------------------------------------------------
(* Specification SpecWatch: watch mode under file events, timers and compile runs *)

\* file events per behaviour
MaxEvents == 4

\* the events the watcher listens to
EventTypes == {"added", "changed", "removed"}

\* the files of the prompts directory
WatchedFiles == {"a.md", "b.md"}

InitWatch ==
    /\ fs = NewWatch
    /\ mgr = NewManager
    /\ last = NoOp
    /\ nops = 0

\* the watcher emits add, change or unlink for a file
WatchEvent ==
    \E eventType \in EventTypes, filePath \in WatchedFiles :
        /\ ~fs.stopped
        /\ nops < MaxEvents
        /\ fs' = triggerCompile(fs, nops + 1, eventType, filePath)
        /\ last' = [op |-> "event", args |-> <<eventType, filePath>>,
                    out |-> IF fs.isCompiling THEN "skipped" ELSE "scheduled",
                    val |-> Leaf(Undefined)]
        /\ nops' = nops + 1
        /\ UNCHANGED mgr

\* a pending timer expires: its callback runs up to "await this.compile(...)"
TimerFires ==
    \E t \in fs.timers :
        /\ ~fs.stopped
        /\ fs' = timerCallback(fs, t)
        /\ last' = [op |-> "start", args |-> <<t.eventType, t.filePath>>, out |-> "ok",
                    val |-> Leaf(Undefined)]
        /\ UNCHANGED <<mgr, nops>>

\* a compile run that the callback awaits returns or throws
CompileEnds ==
    \E out \in {"ok", "failed"} :
        /\ ~fs.stopped
        /\ fs.running > 0
        /\ fs' = compileSettled(fs)
        /\ last' = [op |-> "done", args |-> <<>>, out |-> out, val |-> Leaf(Undefined)]
        /\ UNCHANGED <<mgr, nops>>

\* SIGINT or SIGTERM
Cleanup ==
    /\ ~fs.stopped
    /\ fs' = cleanup(fs)
    /\ last' = [op |-> "cleanup", args |-> <<>>, out |-> "ok", val |-> Leaf(Undefined)]
    /\ UNCHANGED <<mgr, nops>>

NextWatch ==
    \/ WatchEvent
    \/ TimerFires
    \/ CompileEnds
    \/ Cleanup

SpecWatch == InitWatch /\ [][NextWatch]_cfgVars

\* timers fire and compile runs terminate
SpecWatchFair ==
    /\ SpecWatch
    /\ WF_cfgVars(TimerFires)
    /\ WF_cfgVars(CompileEnds)

\* C22: every add, change or unlink event, whenever it arrives, is followed by
\* the start of a compile run (or by the end of watch mode).
C22_EventLeadsToCompile ==
    (last.op = "event") ~> (last.op \in {"start", "cleanup"})

\* what does hold: an event that arrives while no compile run is in progress is
\* followed by the start of a compile run (or by the end of watch mode)
C22_AsBuilt ==
    (last.op = "event" /\ last.out = "scheduled") ~> (last.op \in {"start", "cleanup"})

\* C30: at most one debounce timer is pending and at most one compile run is in
\* progress at any time; while a run is in progress no timer is pending, so no
\* run can start.
C30_OneAtATime ==
    /\ Cardinality(fs.timers) <= 1
    /\ fs.running <= 1
    /\ fs.running = 1 => fs.timers = {}
    /\ fs.isCompiling <=> fs.running = 1

\* the second event replaced the timer of the first, the timer fired, and the
\* third event arrived during the compile run and was skipped
C30_Witness ==
    /\ nops = 3
    /\ fs.compileTimeout = Scalar(2)
    /\ fs.running = 1
    /\ fs.timers = {}
    /\ last.op = "event" /\ last.out = "skipped"

-----------------------------------------------------------------------------
(* DeploymentManager: the options of a deployment *)

\* the options of the deploy command
OptionNames ==
    {"promptNames", "utility", "output", "tags", "category", "excludeTags", "dryRun", "force"}

\* an empty list
EmptyArray == Array(0)

\* what the deploy command passes for the flags that are not given
Omitted ==
    [o \in OptionNames |->
        CASE o \in {"promptNames", "tags", "excludeTags"} -> EmptyArray
          [] o \in {"dryRun", "force"} -> Scalar(0)
          [] OTHER -> Null]

\* the key under "deploy" that holds the default of an option
DefaultKey ==
    [o \in OptionNames |->
        CASE o = "promptNames" -> "prompts"
          [] o = "utility"     -> "defaultUtility"
          [] o = "output"      -> "defaultOutput"
          [] o = "tags"        -> "defaultTags"
          [] o = "category"    -> "defaultCategory"
          [] o = "excludeTags" -> "defaultExcludeTags"
          [] OTHER             -> o]

\* the second argument of configManager.get for an option
DefaultOf ==
    [o \in OptionNames |->
        CASE o \in {"promptNames", "tags", "excludeTags"} -> EmptyArray
          [] o \in {"dryRun", "force"} -> Scalar(0)
          [] OTHER -> Undefined]

\* a || b
Or(a, b) == IF Truthy(a) THEN a ELSE b

\* cliOptions.<o> || configManager.get('deploy.<key>', <default>)
resolveOption(c, cliOptions, o) ==
    Or(cliOptions[o], get(c, <<"deploy", DefaultKey[o]>>, DefaultOf[o]).val)

\* the name of a utility as a string value: the place of the name in the rules
utilityString(name) ==
    String(CHOOSE i \in DOMAIN detectionRuleNames : detectionRuleNames[i] = name)

\* suggestUtilities(detectionResult)[0].utility: the detected utility with the
\* largest share of its rule paths present, mostPaths when it is detected
topSuggestion(detectionResult, mostPaths) ==
    IF Includes(detectionResult.detectedUtilities, mostPaths) THEN mostPaths
    ELSE detectionResult.detectedUtilities[1]

\* _resolveDeploymentOptions from the return of detectWithCache on: det is what the
\* call gave, cachedResult the entry read before it
detected(store, cachedResult, det, now, mostPaths, failAt) ==
    IF det.out = "throws" THEN [store |-> store, out |-> "throws", utility |-> Undefined]
    ELSE IF Len(det.result.detectedUtilities) = 0
    THEN [store |-> store, out |-> "ok", utility |-> Undefined]
    ELSE [store   |-> IF ~isCacheValid(cachedResult, now)
                      THEN saveCache(store, loadCache(store).hashCache, det.cache, failAt)
                      ELSE store,
          out     |-> "ok",
          utility |-> utilityString(topSuggestion(det.result, mostPaths))]

\* the smart detection of _resolveDeploymentOptions, run in Cwd: [store, out, utility]
detectUtility(store, present, now, mostPaths, fails, failAt) ==
    detected(store, CachedResult(loadCache(store).detectionCache, resolve(Cwd)),
             detectWithCache(present, Cwd, loadCache(store).detectionCache, now, fails),
             now, mostPaths, failAt)

\* _resolveDeploymentOptions from "return {" on
resolved(c, cliOptions, det, utility) ==
    [store |-> det.store, out |-> det.out,
     options |-> [o \in OptionNames |->
                    IF o = "utility" THEN Or(utility, det.utility)
                    ELSE resolveOption(c, cliOptions, o)]]

\* _resolveDeploymentOptions(configManager, cliOptions): [store, out, options]
resolveDeploymentOptions(c, cliOptions, store, present, now, mostPaths, fails, failAt) ==
    resolved(c, cliOptions,
             IF ~Truthy(resolveOption(c, cliOptions, "utility"))
             THEN detectUtility(store, present, now, mostPaths, fails, failAt)
             ELSE [store |-> store, out |-> "ok", utility |-> Undefined],
             resolveOption(c, cliOptions, "utility"))

\* deployWithConfig from the return of loadConfiguration on; deploy() throws when
\* no utility is resolved, what it copies is not part of the model
deployLoaded(ld, cliOptions, store, present, now, mostPaths, fails, failAt) ==
    IF ld.out # "ok"
    THEN [store |-> store, out |-> ld.out, options |-> Omitted]
    ELSE resolveDeploymentOptions(ld.c, cliOptions, store, present, now, mostPaths, fails, failAt)

\* deployWithConfig(cliOptions) with a new ConfigurationManager: [store, out, options]
deployWithConfig(files, cliOptions, store, present, now, mostPaths, fails, failAt) ==
    deployLoaded(loadConfiguration([NewManager EXCEPT !.heap = <<cliOptions>>], files, Ref(1)),
                 cliOptions, store, present, now, mostPaths, fails, failAt)

-----------------------------------------------------------------------------
(* Specification SpecDeploy: rex deploy under every combination of flags and defaults *)

\* deployments and clock ticks per behaviour
MaxDeployOps == 2

\* the flags of a deployment: none given, one given, all given
GivenFlags ==
    [o \in OptionNames |-> IF o \in {"dryRun", "force"} THEN Scalar(1)
                           ELSE IF o \in {"promptNames", "tags", "excludeTags"} THEN Array(3)
                           ELSE String(3)]

FlagChoices ==
    {Omitted, GivenFlags} \cup {[Omitted EXCEPT ![o] = GivenFlags[o]] : o \in OptionNames}

\* the deploy defaults of source s (1 global, 2 project) for the options of S
Defaults(s, S) ==
    MkObj("deploy" :> MkObj([key \in {DefaultKey[o] : o \in S} |->
              IF key \in {"dryRun", "force"} THEN Leaf(Scalar(2 - s))
              ELSE IF key \in {"prompts", "defaultTags", "defaultExcludeTags"} THEN Leaf(Array(s))
              ELSE Leaf(String(s))]))

DeployFiles ==
    [global  : {Missing, File(Defaults(1, OptionNames))},
     project : {Missing, File(Defaults(2, OptionNames)),
                File(Defaults(2, {"utility", "tags", "dryRun"})),
                File(Defaults(2, {"output", "category", "excludeTags", "force", "promptNames"}))}]

InitDeploy ==
    /\ \E files \in DeployFiles, P \in PresentChoices :
          fs = [global |-> files.global, project |-> files.project, now |-> StartTime,
                present |-> ("/work/one" :> P) @@ ("/work/two" :> {}),
                cache |-> [cwd \in {Cwd} |-> [hashes |-> NoCacheFile, detection |-> NoCacheFile]]]
    /\ mgr = NewManager
    /\ last = NoOp
    /\ nops = 0

\* rex deploy [prompt-names...] with the flags given, run in Cwd
Deploy ==
    \E cliOptions \in FlagChoices, mostPaths \in {"github-copilot", "cursor"},
       fails \in BOOLEAN, failAt \in {"none", "hashes"} :
        LET r == deployWithConfig(fs, cliOptions, fs.cache[Cwd], fs.present, fs.now, mostPaths,
                                  fails, failAt)
        IN  /\ nops < MaxDeployOps
            /\ fs' = [fs EXCEPT !.cache[Cwd] = r.store]
            /\ last' = [op |-> "deploy", args |-> <<cliOptions>>,
                        out |-> IF r.out = "ok" /\ ~Truthy(r.options["utility"])
                                THEN "NoUtility" ELSE r.out,
                        val |-> r.options]
            /\ nops' = nops + 1
            /\ UNCHANGED mgr

NextDeploy ==
    \/ Deploy
    \/ Tick

SpecDeploy == InitDeploy /\ [][NextDeploy]_cfgVars

\* the deploy default of an option in a configuration file, undefined when the
\* file has none
FileDefault(file, o) ==
    IF file.st = "ok" /\ <<"deploy", DefaultKey[o]>> \in DOMAIN file.tree
    THEN file.tree[<<"deploy", DefaultKey[o]>>] ELSE Undefined

\* the resolved value of option o follows CLI flag > project default > global default
FollowsHierarchy(o) ==
    IF last.args[1][o] # Omitted[o] THEN last.val[o] = last.args[1][o]
    ELSE IF FileDefault(fs.project, o) # Undefined THEN last.val[o] = FileDefault(fs.project, o)
    ELSE IF FileDefault(fs.global, o) # Undefined THEN last.val[o] = FileDefault(fs.global, o)
    ELSE TRUE

\* the options were resolved
Resolved == last.op = "deploy" /\ last.out \in {"ok", "NoUtility"}

\* C23: each of utility, output, tags, category, excludeTags, dryRun, force and
\* prompt names resolves to the value of the flag when the flag is given, else to
\* the project file's deploy default when it has one, else to the global file's.
C23_Hierarchy ==
    Resolved => \A o \in OptionNames : FollowsHierarchy(o)

\* what does hold: the hierarchy for the options whose omitted flag is null or false
C23_AsBuilt ==
    Resolved => \A o \in {"utility", "output", "category", "dryRun", "force"} : FollowsHierarchy(o)

-----------------------------------------------------------------------------
(* Specification SpecShared: compile runs and deployments over one cache directory *)

\* what hashes.json of the working directory holds at the start
SharedHashes ==
    {NoCacheFile, BrokenCacheFile, CacheFile(<<>>), CacheFile("a.md" :> sha256(1))}

\* what detection.json of the working directory holds at the start: results of
\* 45 minutes and of 10 minutes ago
SharedDetection ==
    {NoCacheFile, BrokenCacheFile, CacheFile(<<>>)}
    \cup {CacheFile(Cwd :> [k |-> "result", projectDir |-> Cwd,
                            detectedUtilities |-> <<"vscode">>, timestamp |-> IsoTime(t)]) :
              t \in {StartTime - 45, StartTime - 10}}

InitShared ==
    /\ \E hashes \in SharedHashes, detection \in SharedDetection, P \in PresentChoices :
          fs = [global |-> Missing, project |-> Missing, now |-> StartTime,
                present  |-> ("/work/one" :> P) @@ ("/work/two" :> {}),
                cache    |-> [cwd \in {Cwd} |-> [hashes |-> hashes, detection |-> detection]],
                prompts  |-> [name \in {"a.md", "b.md"} |-> 1],
                compiled |-> [utilityName \in {"github-copilot", "cursor"} |->
                                 [name \in {"a.md", "b.md"} |-> NoArtifact]]]
    /\ mgr = NewManager
    /\ last = NoOp
    /\ nops = 0

\* rex utility compile, run in the working directory of the deployments
CompileHere ==
    \E utilities \in UtilityChoices, clean \in BOOLEAN, faults \in FaultChoices :
        LET options == [utilities |-> utilities, all |-> TRUE, clean |-> clean,
                        promptNames |-> [given |-> FALSE, names |-> {}],
                        incremental |-> TRUE]
            r == compile(fs, Cwd, options, faults.fails, faults.failAt)
        IN  /\ nops < MaxDeployOps
            /\ fs' = r.d
            /\ last' = [op |-> "compile", args |-> <<Cwd, options, faults>>, out |-> r.out,
                        val |-> [compiledUtilities |-> r.compiledUtilities,
                                 compiledPrompts   |-> r.compiledPrompts,
                                 skippedPrompts    |-> r.skippedPrompts,
                                 results           |-> r.results]]
            /\ nops' = nops + 1
            /\ UNCHANGED mgr

NextShared ==
    \/ Deploy
    \/ CompileHere

SpecShared == InitShared /\ [][NextShared]_cfgVars

\* C26: a compile run (without clean) leaves the persisted detection-result
\* mapping as it was and a deployment leaves the persisted fingerprint mapping as
\* it was, whatever the two cache files hold; a file that is missing or does not
\* parse counts as the empty mapping.
C26_Independent ==
    [][/\ (last'.op = "compile" /\ ~last'.args[2].clean)
            => StoredMapping(fs'.cache[Cwd].detection) = StoredMapping(fs.cache[Cwd].detection)
       /\ last'.op = "deploy"
            => StoredMapping(fs'.cache[Cwd].hashes) = StoredMapping(fs.cache[Cwd].hashes)]_cfgVars

\* what does hold: the same when both cache files are there at the start of the
\* operation
C26_AsBuilt ==
    [][("missing" \notin {fs.cache[Cwd].hashes.st, fs.cache[Cwd].detection.st}) =>
         /\ (last'.op = "compile" /\ ~last'.args[2].clean)
              => StoredMapping(fs'.cache[Cwd].detection) = StoredMapping(fs.cache[Cwd].detection)
         /\ last'.op = "deploy"
              => StoredMapping(fs'.cache[Cwd].hashes) = StoredMapping(fs.cache[Cwd].hashes)]_cfgVars

====
